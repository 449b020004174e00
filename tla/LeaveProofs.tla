----------------------------- MODULE LeaveProofs -----------------------------
(***************************************************************************)
(* That leave which was decided is booked, whatever handlers overlap and   *)
(* wherever they stop, and that handlers which take turns decide leave as  *)
(* its approval request was decided, once; and that the ledger explains    *)
(* the pending minutes of a balance: for every number of requests, handlers *)
(* and minutes.  Of LeaveRules, that splitting a leave saves nothing and    *)
(* that a low coverage risk leaves enough at work, for any calendars, rules *)
(* and teams.                                                              *)
(***************************************************************************)
EXTENDS MCLeave, LeaveRules, SumProofs, FiniteSetTheorems, TLAPS

LeaveTyped ==
  /\ leave \in [LeaveId -> LeaveStatus]
  /\ linked \in [LeaveId -> BOOLEAN]
  /\ approval \in [LeaveId -> {"NONE", "PENDING"} \cup Outcome]
  /\ ledger \in [LeaveId -> [EntryType -> Nat]]
  /\ call \in [Proc -> Call \cup {Idle}]

\* What a handler has read still holds when it goes on: a request that is yet
\* to be created is nobody else's, all others exist, and a row that was found
\* in the ledger is there.
CallStands(c) ==
  c # Idle =>
    /\ c.next = "create" => leave[c.req] = "NONE"
    /\ c.next \notin {"create", "ledger"} => leave[c.req] # "NONE"
    /\ c.next = "write" /\ c.seen => Booked(c.req, c.st)

CallsStand ==
  /\ \A p \in Proc : CallStands(call[p])
  /\ \A p, q \in Proc : At(p, "create") /\ At(q, "create") /\ call[p].req = call[q].req => p = q

LeaveBooked(r) ==
  Minutes[r] > 0 =>
    /\ ledger[r]["REQUESTED"] = (IF leave[r] = "NONE" THEN 0 ELSE 1)
    /\ leave[r] = "APPROVED" => ledger[r]["APPROVED_USAGE"] > 0
    /\ leave[r] \in TERMINAL_LEAVE_STATUSES => ledger[r]["CANCELLED_RESTORE"] > 0

LeaveInv == LeaveTyped /\ CallsStand /\ \A r \in LeaveId : LeaveBooked(r)

----------------------------------------------------------------------------

LEMMA MinutesAreNat == \A r \in LeaveId : Minutes[r] \in Nat
BY LeaveAssumption

\* The fields of a handler's call.
LEMMA CallFields ==
  ASSUME LeaveTyped, NEW p \in Proc, call[p] # Idle
  PROVE  /\ call[p].next \in {"create", "submit", "withdraw", "link", "decide", "outcome",
                              "search", "write", "ledger"}
         /\ call[p].next # "ledger" => call[p].req \in LeaveId
         /\ call[p].next = "link" => call[p].approved \in BOOLEAN
         /\ call[p].next = "decide" => call[p].st \in {"APPROVED", "REJECTED"}
         /\ call[p].next \in {"outcome", "search", "write"} => call[p].st \in Outcome
         /\ call[p].next = "write" => call[p].seen \in BOOLEAN
BY DEF LeaveTyped, Call

\* One step of a handler.
LEMMA HandlerSteps ==
  ASSUME LeaveInv, NEW p \in Proc, NEW c \in Call \cup {Idle}, Continue(p, c),
         leave' \in [LeaveId -> LeaveStatus], linked' \in [LeaveId -> BOOLEAN],
         approval' \in [LeaveId -> {"NONE", "PENDING"} \cup Outcome],
         ledger' \in [LeaveId -> [EntryType -> Nat]],
         \A r \in LeaveId : leave[r] # "NONE" => leave'[r] # "NONE",
         \A r \in LeaveId, t \in EntryType : ledger'[r][t] >= ledger[r][t],
         \A r \in LeaveId : leave[r] = "NONE" /\ leave'[r] # "NONE" => At(p, "create") /\ call[p].req = r,
         CallStands(c)', \A r \in LeaveId : LeaveBooked(r)',
         c # Idle /\ c.next = "create" => \A q \in Proc : At(q, "create") => call[q].req # c.req
  PROVE  LeaveInv'
<1>1. /\ call'[p] = c /\ \A q \in Proc \ {p} : call'[q] = call[q]
      /\ call' \in [Proc -> Call \cup {Idle}] /\ LeaveTyped
  BY DEF LeaveInv, LeaveTyped, Continue
<1>2. LeaveTyped'
  BY <1>1 DEF LeaveTyped
<1>3. ASSUME NEW q \in Proc \ {p} PROVE CallStands(call[q])'
  <2>1. CallStands(call[q]) /\ call'[q] = call[q]
    BY <1>1 DEF LeaveInv, CallsStand
  <2>2. CASE call[q] = Idle
    BY <2>1, <2>2 DEF CallStands
  <2>3. CASE call[q] # Idle
    <3>1. PICK d \in Call : d = call[q]
      BY <1>1, <2>3 DEF LeaveTyped
    <3>2. d.next # "ledger" => d.req \in LeaveId
      BY <1>1, <2>3, <3>1, CallFields
    <3>3. d.next = "create" => leave'[d.req] = "NONE"
      <4> SUFFICES ASSUME d.next = "create" PROVE leave'[d.req] = "NONE"
        OBVIOUS
      <4>1. At(q, "create") /\ leave[d.req] = "NONE"
        BY <2>1, <2>3, <3>1 DEF At, CallStands
      <4>2. ~(At(p, "create") /\ call[p].req = d.req)
        BY <3>1, <4>1 DEF LeaveInv, CallsStand
      <4> QED
        BY <3>2, <4>1, <4>2
    <3>4. d.next \notin {"create", "ledger"} => leave'[d.req] # "NONE"
      BY <2>1, <2>3, <3>1, <3>2 DEF CallStands
    <3>5. d.next = "write" /\ d.seen => Booked(d.req, d.st)'
      <4> SUFFICES ASSUME d.next = "write", d.seen PROVE Booked(d.req, d.st)'
        OBVIOUS
      <4> DEFINE t == IF d.st = "APPROVED" THEN "APPROVED_USAGE" ELSE "CANCELLED_RESTORE"
      <4>1. d.req \in LeaveId /\ t \in EntryType /\ ledger[d.req][t] > 0
        BY <2>1, <2>3, <3>1, <3>2 DEF CallStands, Booked, EntryType
      <4>2. ledger'[d.req][t] >= ledger[d.req][t]
        BY <4>1
      <4>3. ledger[d.req][t] \in Nat /\ ledger'[d.req][t] \in Nat
        BY <1>1, <4>1 DEF LeaveTyped
      <4>4. ledger'[d.req][t] > 0
        BY <4>1, <4>2, <4>3
      <4> QED
        BY <4>4 DEF Booked
    <3>6. CallStands(d)'
      BY <3>3, <3>4, <3>5 DEF CallStands
    <3> QED
      BY <2>1, <3>1, <3>6 DEF CallStands
  <2> QED
    BY <2>2, <2>3
<1>4. CallStands(call[p])'
  BY <1>1 DEF CallStands, Booked
<1>5. ASSUME NEW q \in Proc, NEW s \in Proc, At(q, "create")', At(s, "create")', call'[q].req = call'[s].req
      PROVE  q = s
  BY <1>1, <1>5 DEF At, LeaveInv, CallsStand
<1> QED
  BY <1>2, <1>3, <1>4, <1>5 DEF LeaveInv, CallsStand

\* A step that writes neither the leave nor the ledger.
LEMMA HandlerOnlyGoesOn ==
  ASSUME LeaveInv, NEW p \in Proc, NEW c \in Call \cup {Idle}, Continue(p, c),
         leave' = leave, ledger' = ledger, linked' \in [LeaveId -> BOOLEAN],
         approval' \in [LeaveId -> {"NONE", "PENDING"} \cup Outcome], CallStands(c),
         c # Idle /\ c.next = "create" => \A q \in Proc : At(q, "create") => call[q].req # c.req
  PROVE  LeaveInv'
<1>1. LeaveTyped /\ \A r \in LeaveId : LeaveBooked(r)
  BY DEF LeaveInv
<1>2. leave' \in [LeaveId -> LeaveStatus] /\ ledger' \in [LeaveId -> [EntryType -> Nat]]
  BY <1>1 DEF LeaveTyped
<1>3. CallStands(c)'
  BY DEF CallStands, Booked
<1>4. \A r \in LeaveId : LeaveBooked(r)'
  BY <1>1 DEF LeaveBooked
<1>5. \A r \in LeaveId, t \in EntryType : ledger'[r][t] >= ledger[r][t]
  BY <1>1 DEF LeaveTyped
<1> QED
  BY <1>2, <1>3, <1>4, <1>5, HandlerSteps

\* What the engine leaves in place of a request's status.
LEMMA EngineTyped ==
  ASSUME LeaveTyped, NEW r \in LeaveId
  PROVE  /\ Engine!Create(r) =>
              /\ approval' \in [LeaveId -> {"NONE", "PENDING"} \cup Outcome]
              /\ approval[r] = "NONE" /\ approval'[r] \in {"PENDING", "APPROVED"}
              /\ \A x \in LeaveId \ {r} : approval'[x] = approval[x]
         /\ \A st \in Outcome : Engine!Decide(r, st) =>
              /\ approval' \in [LeaveId -> {"NONE", "PENDING"} \cup Outcome]
              /\ approval[r] = "PENDING" /\ approval'[r] = st
              /\ \A x \in LeaveId \ {r} : approval'[x] = approval[x]
         /\ \A st \in Outcome : Engine!Overturn(r, st) =>
              /\ approval' \in [LeaveId -> {"NONE", "PENDING"} \cup Outcome]
              /\ approval[r] \in Outcome /\ approval'[r] = st
              /\ \A x \in LeaveId \ {r} : approval'[x] = approval[x]
BY DEF LeaveTyped, Engine!Create, Engine!Decide, Engine!Overturn, Outcome, Engine!Outcome

LEMMA CreateInv ==
  ASSUME LeaveInv, NEW p \in Proc
  PROVE  /\ \A r \in LeaveId : CreateRead(p, r) => LeaveInv'
         /\ CreateCommit(p) => LeaveInv'
<1> LeaveTyped
  BY DEF LeaveInv
<1>1. ASSUME NEW r \in LeaveId, CreateRead(p, r) PROVE LeaveInv'
  <2> DEFINE c == [next |-> "create", req |-> r]
  <2>1. c \in Call /\ CallStands(c)
    BY <1>1 DEF Call, CallStands, CreateRead
  <2>2. c \in Call \cup {Idle} /\ (c # Idle /\ c.next = "create" =>
          \A q \in Proc : At(q, "create") => call[q].req # c.req)
    BY <1>1, <2>1 DEF CreateRead
  <2>3. /\ Continue(p, c) /\ leave' = leave /\ ledger' = ledger
        /\ linked' \in [LeaveId -> BOOLEAN]
        /\ approval' \in [LeaveId -> {"NONE", "PENDING"} \cup Outcome]
    BY <1>1 DEF CreateRead, balanceVars, LeaveTyped
  <2> HIDE DEF c
  <2> QED
    BY <2>1, <2>2, <2>3, HandlerOnlyGoesOn
<1>2. ASSUME CreateCommit(p) PROVE LeaveInv'
  <2>1. At(p, "create") /\ call[p] # Idle
    BY <1>2 DEF CreateCommit, At
  <2>2. PICK r \in LeaveId : r = call[p].req /\ leave[r] = "NONE"
    BY <2>1, CallFields DEF At, LeaveInv, CallsStand, CallStands
  <2>3. PICK st \in {"PENDING_APPROVAL", "SUBMITTED"} : leave' = [leave EXCEPT ![r] = st]
    BY <1>2, <2>2 DEF CreateCommit
  <2>4. /\ leave' \in [LeaveId -> LeaveStatus]
        /\ \A x \in LeaveId : leave'[x] = IF x = r THEN st ELSE leave[x]
    BY <2>3 DEF LeaveTyped, LeaveStatus
  <2>5. ledger' = IF Minutes[r] = 0 THEN ledger ELSE [ledger EXCEPT ![r]["REQUESTED"] = @ + 1]
    BY <1>2, <2>2 DEF CreateCommit, Reserve, Entry, balanceVars
  <2>6. /\ ledger' \in [LeaveId -> [EntryType -> Nat]]
        /\ \A x \in LeaveId, t \in EntryType :
             ledger'[x][t] = IF x = r /\ t = "REQUESTED" /\ Minutes[r] # 0
                             THEN ledger[x][t] + 1 ELSE ledger[x][t]
    BY <2>5 DEF LeaveTyped, EntryType
  <2>7. PICK c \in Call : /\ Continue(p, c)
                          /\ c.next \notin {"create", "write", "ledger"} /\ c.req = r
    <3>1. /\ [next |-> "submit", req |-> r] \in Call
          /\ [next |-> "outcome", req |-> r, st |-> "APPROVED"] \in Call
      BY DEF Call, Outcome, Engine!Outcome
    <3>2. Continue(p, [next |-> "submit", req |-> r])
          \/ Continue(p, [next |-> "outcome", req |-> r, st |-> "APPROVED"])
      BY <1>2, <2>2 DEF CreateCommit
    <3> QED
      BY <3>1, <3>2
  <2>8. CallStands(c)'
    BY <2>4, <2>7 DEF CallStands
  <2>9. ASSUME NEW x \in LeaveId PROVE LeaveBooked(x)'
    <3>1. LeaveBooked(x) /\ Minutes[x] \in Nat
      BY MinutesAreNat DEF LeaveInv
    <3>2. {"REQUESTED", "APPROVED_USAGE", "CANCELLED_RESTORE"} = EntryType
      BY DEF EntryType
    <3>3. st # "NONE" /\ st # "APPROVED" /\ st \notin TERMINAL_LEAVE_STATUSES
      BY DEF TERMINAL_LEAVE_STATUSES
    <3> QED
      BY <2>2, <2>4, <2>6, <3>1, <3>2, <3>3 DEF LeaveBooked
  <2>10. /\ linked' \in [LeaveId -> BOOLEAN]
         /\ approval' \in [LeaveId -> {"NONE", "PENDING"} \cup Outcome]
    BY <1>2 DEF CreateCommit, LeaveTyped
  <2>11. /\ \A x \in LeaveId : leave[x] # "NONE" => leave'[x] # "NONE"
         /\ \A x \in LeaveId : leave[x] = "NONE" /\ leave'[x] # "NONE" => At(p, "create") /\ call[p].req = x
    BY <2>1, <2>2, <2>4
  <2>12. \A x \in LeaveId, t \in EntryType : ledger'[x][t] >= ledger[x][t]
    BY <2>6 DEF LeaveTyped
  <2>13. c \in Call \cup {Idle} /\ (c # Idle /\ c.next = "create" =>
           \A q \in Proc : At(q, "create") => call[q].req # c.req)
    BY <2>7
  <2> QED
    BY <2>4, <2>6, <2>7, <2>8, <2>9, <2>10, <2>11, <2>12, <2>13, HandlerSteps
<1> QED
  BY <1>1, <1>2

\* Steps that begin a decision, and those that ask the engine.
LEMMA DecisionInv ==
  ASSUME LeaveInv, NEW p \in Proc,
         \/ \E r \in LeaveId : CancelRead(p, r) \/ \E st \in {"APPROVED", "REJECTED"} : DecideRead(p, r, st)
         \/ Submit(p) \/ EngineDecides(p) \/ EngineWithdraws(p)
         \/ OutcomeRead(p) \/ OutcomeSearch(p)
  PROVE  LeaveInv'
<1> LeaveTyped
  BY DEF LeaveInv
<1>u. leave' = leave /\ ledger' = ledger
  BY DEF CancelRead, DecideRead, Submit, EngineDecides, EngineWithdraws, OutcomeRead, OutcomeSearch,
         balanceVars
<1>o. {"APPROVED", "REJECTED", "CANCELLED", "WITHDRAWN"} = Outcome
  BY DEF Outcome, Engine!Outcome
<1>1. ASSUME NEW c \in Call \cup {Idle}, Continue(p, c),
             linked' \in [LeaveId -> BOOLEAN],
             approval' \in [LeaveId -> {"NONE", "PENDING"} \cup Outcome],
             c # Idle => /\ c.next \notin {"create", "ledger"} /\ leave[c.req] # "NONE"
                         /\ c.next = "write" /\ c.seen => Booked(c.req, c.st)
      PROVE  LeaveInv'
  <2>1. CallStands(c) /\ (c # Idle /\ c.next = "create" =>
          \A q \in Proc : At(q, "create") => call[q].req # c.req)
    BY <1>1 DEF CallStands
  <2> QED
    BY <1>u, <1>1, <2>1, HandlerOnlyGoesOn
<1>2. ASSUME NEW r \in LeaveId, CancelRead(p, r) PROVE LeaveInv'
  <2>1. PICK c \in Call : Continue(p, c) /\ c.next \in {"withdraw", "outcome"} /\ c.req = r
    <3>1. /\ [next |-> "withdraw", req |-> r] \in Call
          /\ [next |-> "outcome", req |-> r, st |-> "CANCELLED"] \in Call
      BY <1>o DEF Call
    <3>2. Continue(p, [next |-> "withdraw", req |-> r])
          \/ Continue(p, [next |-> "outcome", req |-> r, st |-> "CANCELLED"])
      BY <1>2 DEF CancelRead
    <3> QED
      BY <3>1, <3>2
  <2>2. leave[r] # "NONE" /\ linked' = linked /\ approval' = approval
    BY <1>2 DEF CancelRead
  <2> QED
    BY <1>1, <2>1, <2>2 DEF LeaveTyped
<1>3. ASSUME NEW r \in LeaveId, NEW st \in {"APPROVED", "REJECTED"}, DecideRead(p, r, st)
      PROVE  LeaveInv'
  <2>1. PICK c \in Call : Continue(p, c) /\ c.next \in {"decide", "outcome"} /\ c.req = r
    <3>1. /\ [next |-> "decide", req |-> r, st |-> st] \in Call
          /\ [next |-> "outcome", req |-> r, st |-> st] \in Call
      BY <1>o DEF Call
    <3>2. Continue(p, [next |-> "decide", req |-> r, st |-> st])
          \/ Continue(p, [next |-> "outcome", req |-> r, st |-> st])
      BY <1>3 DEF DecideRead
    <3> QED
      BY <3>1, <3>2
  <2>2. leave[r] # "NONE" /\ linked' = linked /\ approval' = approval
    BY <1>3 DEF DecideRead, Decidable
  <2> QED
    BY <1>1, <2>1, <2>2 DEF LeaveTyped
<1>4. ASSUME \E step \in {"submit", "decide", "withdraw", "outcome", "search"} : At(p, step)
      PROVE  /\ call[p] # Idle /\ call[p].req \in LeaveId /\ leave[call[p].req] # "NONE"
             /\ call[p].next \in {"decide"} => call[p].st \in {"APPROVED", "REJECTED"}
             /\ call[p].next \in {"outcome", "search"} => call[p].st \in Outcome
  BY <1>4, CallFields DEF At, LeaveInv, CallsStand, CallStands
<1>5. CASE Submit(p)
  <2>1. PICK r \in LeaveId : r = call[p].req /\ leave[r] # "NONE"
    BY <1>4, <1>5 DEF Submit
  <2>2. approval' \in [LeaveId -> {"NONE", "PENDING"} \cup Outcome]
    BY <1>5, <2>1, EngineTyped DEF Submit
  <2>3. PICK b \in BOOLEAN : Continue(p, [next |-> "link", req |-> r, approved |-> b])
    BY <1>5, <2>1 DEF Submit
  <2>4. [next |-> "link", req |-> r, approved |-> b] \in Call
    BY DEF Call
  <2>5. linked' = linked
    BY <1>5 DEF Submit
  <2> QED
    BY <1>1, <2>1, <2>2, <2>3, <2>4, <2>5 DEF LeaveTyped
<1>6. CASE EngineDecides(p)
  <2>1. PICK r \in LeaveId, st \in {"APPROVED", "REJECTED"} :
          r = call[p].req /\ leave[r] # "NONE" /\ st = call[p].st
    BY <1>4, <1>6 DEF EngineDecides, At
  <2>2. /\ approval' \in [LeaveId -> {"NONE", "PENDING"} \cup Outcome]
        /\ approval'[r] \in {"PENDING"} \cup Outcome
    <3>1. Engine!Decide(r, st) \/ Engine!Overturn(r, st)
          \/ (approval[r] \in {"PENDING"} \cup Outcome /\ approval' = approval)
      BY <1>6, <2>1 DEF EngineDecides
    <3> QED
      BY <1>o, <3>1, EngineTyped DEF LeaveTyped
  <2>3. PICK c \in Call \cup {Idle} :
          Continue(p, c) /\ (c # Idle => c.next = "outcome" /\ c.req = r)
    <3>1. Continue(p, Idle)
          \/ (approval'[r] # "PENDING" /\ Continue(p, [next |-> "outcome", req |-> r, st |-> approval'[r]]))
      BY <1>6, <2>1 DEF EngineDecides
    <3>2. approval'[r] # "PENDING" => [next |-> "outcome", req |-> r, st |-> approval'[r]] \in Call
      BY <2>2 DEF Call
    <3> QED
      BY <3>1, <3>2
  <2>4. linked' = linked
    BY <1>6 DEF EngineDecides
  <2> QED
    BY <1>1, <2>1, <2>2, <2>3, <2>4 DEF LeaveTyped
<1>7. CASE EngineWithdraws(p)
  <2>1. PICK r \in LeaveId : r = call[p].req /\ leave[r] # "NONE"
    BY <1>4, <1>7 DEF EngineWithdraws
  <2>2. approval' \in [LeaveId -> {"NONE", "PENDING"} \cup Outcome]
    BY <1>o, <1>7, <2>1, EngineTyped DEF EngineWithdraws
  <2>3. Continue(p, [next |-> "outcome", req |-> r, st |-> "CANCELLED"]) /\ linked' = linked
    BY <1>7, <2>1 DEF EngineWithdraws
  <2>4. [next |-> "outcome", req |-> r, st |-> "CANCELLED"] \in Call
    BY <1>o DEF Call
  <2> QED
    BY <1>1, <2>1, <2>2, <2>3, <2>4 DEF LeaveTyped
<1>8. CASE OutcomeRead(p)
  <2>1. PICK r \in LeaveId, st \in Outcome : r = call[p].req /\ leave[r] # "NONE" /\ st = call[p].st
    BY <1>4, <1>8 DEF OutcomeRead, At
  <2>2. /\ Continue(p, Idle) \/ Continue(p, [next |-> "search", req |-> r, st |-> st])
        /\ linked' = linked /\ approval' = approval
    BY <1>8, <2>1 DEF OutcomeRead
  <2>3. [next |-> "search", req |-> r, st |-> st] \in Call
    BY DEF Call
  <2> QED
    BY <1>1, <2>1, <2>2, <2>3 DEF LeaveTyped
<1>9. CASE OutcomeSearch(p)
  <2>1. PICK r \in LeaveId, st \in Outcome : r = call[p].req /\ leave[r] # "NONE" /\ st = call[p].st
    BY <1>4, <1>9 DEF OutcomeSearch, At
  <2>2. PICK b \in BOOLEAN : b = Booked(r, st)
    <3>1. Booked(r, st) \in BOOLEAN
      BY DEF Booked
    <3> QED
      BY <3>1
  <2>3. /\ Continue(p, [next |-> "write", req |-> r, st |-> st, seen |-> b])
        /\ linked' = linked /\ approval' = approval
    BY <1>9, <2>1, <2>2 DEF OutcomeSearch
  <2>4. [next |-> "write", req |-> r, st |-> st, seen |-> b] \in Call
    BY DEF Call
  <2> QED
    BY <1>1, <2>1, <2>2, <2>3, <2>4 DEF LeaveTyped
<1> QED
  BY <1>2, <1>3, <1>5, <1>6, <1>7, <1>8, <1>9

\* The writes of a request that exists.
LEMMA WriteInv ==
  ASSUME LeaveInv, NEW p \in Proc, Link(p) \/ OutcomeWrite(p)
  PROVE  LeaveInv'
<1> LeaveTyped
  BY DEF LeaveInv
<1>o. /\ {"APPROVED", "REJECTED", "CANCELLED", "WITHDRAWN"} = Outcome
      /\ EntryType = {"REQUESTED", "APPROVED_USAGE", "CANCELLED_RESTORE"}
  BY DEF Outcome, Engine!Outcome, EntryType
<1>1. CASE Link(p)
  <2>1. PICK r \in LeaveId : r = call[p].req /\ leave[r] # "NONE"
    BY <1>1, CallFields DEF Link, At, LeaveInv, CallsStand, CallStands
  <2>2. /\ leave' = [leave EXCEPT ![r] = "PENDING_APPROVAL"]
        /\ linked' = [linked EXCEPT ![r] = TRUE] /\ approval' = approval /\ ledger' = ledger
    BY <1>1, <2>1 DEF Link, balanceVars
  <2>3. /\ leave' \in [LeaveId -> LeaveStatus] /\ linked' \in [LeaveId -> BOOLEAN]
        /\ approval' \in [LeaveId -> {"NONE", "PENDING"} \cup Outcome]
        /\ ledger' \in [LeaveId -> [EntryType -> Nat]]
        /\ \A x \in LeaveId : leave'[x] = IF x = r THEN "PENDING_APPROVAL" ELSE leave[x]
    BY <2>2 DEF LeaveTyped, LeaveStatus
  <2>4. PICK c \in Call \cup {Idle} : Continue(p, c) /\ (c # Idle => c.next = "outcome" /\ c.req = r)
    <3>1. Continue(p, Idle) \/ Continue(p, [next |-> "outcome", req |-> r, st |-> "APPROVED"])
      BY <1>1, <2>1 DEF Link
    <3>2. [next |-> "outcome", req |-> r, st |-> "APPROVED"] \in Call
      BY <1>o DEF Call
    <3> QED
      BY <3>1, <3>2
  <2>5. CallStands(c)'
    BY <2>3, <2>4 DEF CallStands
  <2>6. \A x \in LeaveId : LeaveBooked(x)'
    BY <2>1, <2>2, <2>3 DEF LeaveInv, LeaveBooked, TERMINAL_LEAVE_STATUSES
  <2>7. /\ \A x \in LeaveId : leave[x] # "NONE" => leave'[x] # "NONE"
        /\ \A x \in LeaveId : leave[x] = "NONE" /\ leave'[x] # "NONE" => At(p, "create") /\ call[p].req = x
        /\ \A x \in LeaveId, t \in EntryType : ledger'[x][t] >= ledger[x][t]
        /\ (c # Idle /\ c.next = "create" => \A q \in Proc : At(q, "create") => call[q].req # c.req)
    BY <2>1, <2>2, <2>3, <2>4 DEF LeaveTyped
  <2> QED
    BY <2>3, <2>4, <2>5, <2>6, <2>7, HandlerSteps
<1>2. CASE OutcomeWrite(p)
  <2>1. PICK r \in LeaveId, st \in Outcome : r = call[p].req /\ st = call[p].st /\ leave[r] # "NONE"
    BY <1>2, CallFields DEF OutcomeWrite, At, LeaveInv, CallsStand, CallStands
  <2> DEFINE t == IF st = "APPROVED" THEN "APPROVED_USAGE" ELSE "CANCELLED_RESTORE"
             books == Minutes[r] # 0 /\ ~call[p].seen
  <2>2. /\ leave' = [leave EXCEPT ![r] = st] /\ linked' = linked /\ approval' = approval
        /\ Continue(p, Idle)
        /\ ledger' = IF books THEN [ledger EXCEPT ![r][t] = @ + 1] ELSE ledger
    BY <1>2, <2>1 DEF OutcomeWrite, Use, Release, Entry, balanceVars
  <2>3. /\ leave' \in [LeaveId -> LeaveStatus] /\ linked' \in [LeaveId -> BOOLEAN]
        /\ approval' \in [LeaveId -> {"NONE", "PENDING"} \cup Outcome]
        /\ \A x \in LeaveId : leave'[x] = IF x = r THEN st ELSE leave[x]
    BY <1>o, <2>2 DEF LeaveTyped, LeaveStatus
  <2>4. /\ ledger' \in [LeaveId -> [EntryType -> Nat]]
        /\ \A x \in LeaveId, u \in EntryType :
             ledger'[x][u] = IF x = r /\ u = t /\ books THEN ledger[x][u] + 1 ELSE ledger[x][u]
    <3>1. t \in EntryType
      BY <1>o
    <3>2. ledger \in [LeaveId -> [EntryType -> Nat]]
      BY DEF LeaveTyped
    <3>3. CASE ~books
      BY <2>2, <3>2, <3>3
    <3>4. CASE books
      <4>1. ledger' = [ledger EXCEPT ![r][t] = @ + 1]
        BY <2>2, <3>4
      <4> HIDE DEF t, books
      <4> QED
        BY <3>1, <3>2, <3>4, <4>1
    <3> QED
      BY <3>3, <3>4
  <2>5. Minutes[r] > 0 => ledger'[r][t] > 0
    <3> SUFFICES ASSUME Minutes[r] > 0 PROVE ledger'[r][t] > 0
      OBVIOUS
    <3>1. t \in EntryType /\ ledger[r][t] \in Nat
      BY <1>o DEF LeaveTyped
    <3>2. CASE call[p].seen
      <4>1. Booked(r, st)
        BY <1>2, <2>1, <3>2 DEF OutcomeWrite, At, LeaveInv, CallsStand, CallStands
      <4>2. ledger[r][t] > 0
        BY <4>1 DEF Booked
      <4> QED
        BY <2>4, <3>1, <3>2, <4>2
    <3>3. CASE ~call[p].seen
      BY <2>4, <3>1, <3>3, MinutesAreNat
    <3> QED
      BY <3>2, <3>3
  <2>6. ASSUME NEW x \in LeaveId PROVE LeaveBooked(x)'
    <3>1. LeaveBooked(x)
      BY DEF LeaveInv
    <3>2. CASE x # r
      BY <1>o, <2>3, <2>4, <3>1, <3>2 DEF LeaveBooked
    <3>3. CASE x = r
      <4>1. Minutes[r] > 0 => ledger'[r]["REQUESTED"] = 1
        BY <1>o, <2>1, <2>4, <3>1, <3>3 DEF LeaveBooked
      <4>2. leave'[r] = st /\ st # "NONE"
        BY <1>o, <2>3
      <4>3. st \in TERMINAL_LEAVE_STATUSES => st # "APPROVED"
        BY DEF TERMINAL_LEAVE_STATUSES
      <4>4. Minutes[r] > 0 =>
              /\ leave'[r] = "APPROVED" => ledger'[r]["APPROVED_USAGE"] > 0
              /\ leave'[r] \in TERMINAL_LEAVE_STATUSES => ledger'[r]["CANCELLED_RESTORE"] > 0
        BY <2>5, <4>2, <4>3
      <4> HIDE DEF t, books
      <4> QED
        BY <3>3, <4>1, <4>2, <4>4 DEF LeaveBooked
    <3> QED
      BY <3>2, <3>3
  <2>7. /\ \A x \in LeaveId : leave[x] # "NONE" => leave'[x] # "NONE"
        /\ \A x \in LeaveId : leave[x] = "NONE" /\ leave'[x] # "NONE" => At(p, "create") /\ call[p].req = x
        /\ (Idle # Idle /\ Idle.next = "create" => \A q \in Proc : At(q, "create") => call[q].req # Idle.req)
        /\ Idle \in Call \cup {Idle} /\ CallStands(Idle)'
    BY <1>o, <2>1, <2>3 DEF CallStands
  <2>8. \A x \in LeaveId, u \in EntryType : ledger'[x][u] >= ledger[x][u]
    <3> HIDE DEF t, books
    <3> QED
      BY <2>4 DEF LeaveTyped
  <2> HIDE DEF t, books
  <2> QED
    BY <2>2, <2>3, <2>4, <2>6, <2>7, <2>8, HandlerSteps
<1> QED
  BY <1>1, <1>2

\* Adjustments, and handlers that stop.
LEMMA OtherCallsInv ==
  ASSUME LeaveInv, NEW p \in Proc,
         Stop(p) \/ AdjustLedger(p) \/ \E n \in Adjustments : AdjustWrite(p, n)
  PROVE  LeaveInv'
<1>1. PICK c \in Call \cup {Idle} : Continue(p, c) /\ (c # Idle => c.next = "ledger")
  <2>1. \A n \in Adjustments : [next |-> "ledger", minutes |-> n] \in Call
    BY DEF Call
  <2>2. ASSUME NEW n \in Adjustments, AdjustWrite(p, n)
        PROVE  \E c \in Call \cup {Idle} : Continue(p, c) /\ (c # Idle => c.next = "ledger")
    <3>1. Continue(p, [next |-> "ledger", minutes |-> n])
      BY <2>2 DEF AdjustWrite
    <3> QED
      BY <2>1, <3>1
  <2> QED
    BY <2>2 DEF Stop, AdjustLedger
<1>2. /\ leave' = leave /\ linked' = linked /\ approval' = approval /\ ledger' = ledger
  BY DEF Stop, AdjustLedger, AdjustWrite, balanceVars
<1>3. /\ CallStands(c)
      /\ (c # Idle /\ c.next = "create" => \A q \in Proc : At(q, "create") => call[q].req # c.req)
  BY <1>1 DEF CallStands
<1> QED
  BY <1>1, <1>2, <1>3, HandlerOnlyGoesOn DEF LeaveInv, LeaveTyped

\* Steps in which no handler takes part.
LEMMA HandlersUntouched ==
  ASSUME LeaveInv, UNCHANGED <<leave, linked, ledger, call>>,
         approval' \in [LeaveId -> {"NONE", "PENDING"} \cup Outcome]
  PROVE  LeaveInv'
BY DEF LeaveInv, LeaveTyped, CallsStand, CallStands, At, Booked, LeaveBooked

LEMMA LeaveStep == LeaveInv /\ [Next]_vars => LeaveInv'
<1> SUFFICES ASSUME LeaveInv, [Next]_vars PROVE LeaveInv'
  OBVIOUS
<1>1. ASSUME NEW p \in Proc,
             \/ CreateCommit(p) \/ Submit(p) \/ Link(p) \/ EngineDecides(p)
             \/ EngineWithdraws(p) \/ OutcomeRead(p) \/ OutcomeSearch(p)
             \/ OutcomeWrite(p) \/ AdjustLedger(p) \/ Stop(p)
             \/ \E r \in LeaveId :
                  \/ CreateRead(p, r) \/ CancelRead(p, r)
                  \/ \E st \in {"APPROVED", "REJECTED"} : DecideRead(p, r, st)
             \/ \E n \in Adjustments : AdjustWrite(p, n)
      PROVE  LeaveInv'
  BY <1>1, CreateInv, DecisionInv, WriteInv, OtherCallsInv
<1>2. ASSUME NEW r \in LeaveId, NEW st \in Outcome, DecidedElsewhere(r, st) PROVE LeaveInv'
  BY <1>2, EngineTyped, HandlersUntouched DEF DecidedElsewhere, LeaveInv, balanceVars
<1>3. CASE UNCHANGED vars
  BY <1>3, HandlersUntouched DEF vars, balanceVars, LeaveInv, LeaveTyped
<1> QED
  BY <1>1, <1>2, <1>3 DEF Next

LEMMA LeaveStart == Init => LeaveInv
<1> SUFFICES ASSUME Init PROVE LeaveInv
  OBVIOUS
<1>1. LeaveTyped
  BY DEF Init, LeaveTyped, LeaveStatus
<1>2. CallsStand
  BY DEF Init, CallsStand, CallStands, At
<1>3. \A r \in LeaveId : LeaveBooked(r)
  BY DEF Init, LeaveBooked, TERMINAL_LEAVE_STATUSES, EntryType
<1> QED
  BY <1>1, <1>2, <1>3 DEF LeaveInv

\* However handlers overlap and wherever they stop, paid leave that exists has
\* reserved its minutes once, approved leave has been charged, and the
\* reservation of ended leave was released (applyLeaveOutcome).
THEOREM PaidLeaveIsBooked == Spec => []DecidedLeaveIsBooked
<1>1. LeaveInv => DecidedLeaveIsBooked
  BY DEF LeaveInv, LeaveBooked, DecidedLeaveIsBooked
<1> QED
  BY <1>1, LeaveStart, LeaveStep, PTL DEF Spec

----------------------------------------------------------------------------
(* Handlers that take turns *)

\* What a handler has read, of a request that nobody else is at.
InTurn(c) ==
  c # Idle =>
    /\ c.next \in {"submit", "link"} => leave[c.req] = "PENDING_APPROVAL" /\ ~linked[c.req]
    /\ c.next = "link" /\ c.approved => approval[c.req] = "APPROVED"
    /\ c.next = "decide" => Decidable(c.req)
    /\ c.next = "withdraw" => leave[c.req] = "PENDING_APPROVAL"
    /\ c.next \in {"outcome", "search", "write"} =>
         /\ c.st # "WITHDRAWN"
         /\ c.st \in {"APPROVED", "REJECTED"} =>
              Decidable(c.req) /\ (linked[c.req] => approval[c.req] = c.st)
         /\ c.st = "CANCELLED" =>
              \/ c.next = "outcome" /\ leave[c.req] \in TERMINAL_LEAVE_STATUSES
              \/ /\ leave[c.req] \notin TERMINAL_LEAVE_STATUSES
                 /\ linked[c.req] => approval[c.req] \in {"WITHDRAWN", "APPROVED"}

Follows(r) ==
  linked[r] =>
    /\ leave[r] \notin {"NONE", "SUBMITTED"}
    /\ leave[r] \in {"APPROVED", "REJECTED"} => approval[r] = leave[r]
    /\ leave[r] = "CANCELLED" => approval[r] \in {"WITHDRAWN", "APPROVED"}

TurnsInv ==
  /\ \A p, q \in Proc : call[p] # Idle /\ call[q] # Idle => p = q
  /\ \A p \in Proc : InTurn(call[p])
  /\ \A r \in LeaveId : Follows(r)

Alone(p) == \A q \in Proc \ {p} : call[q] = Idle

\* A handler that goes on has the turn.
LEMMA HandlerAlone ==
  ASSUME LeaveInv, TurnsInv, TakeTurns, NEW p \in Proc, NEW c, Continue(p, c),
         call[p] # Idle \/ c # Idle
  PROVE  Alone(p)
<1>1. call'[p] = c /\ \A q \in Proc \ {p} : call'[q] = call[q]
  BY DEF LeaveInv, LeaveTyped, Continue
<1> QED
  BY <1>1 DEF TurnsInv, TakeTurns, Alone

LEMMA TurnGoesOn ==
  ASSUME LeaveInv, TurnsInv, NEW p \in Proc, NEW c, Continue(p, c), Alone(p),
         InTurn(c)', \A r \in LeaveId : Follows(r)'
  PROVE  TurnsInv'
<1>1. call'[p] = c /\ \A q \in Proc \ {p} : call'[q] = Idle
  BY DEF LeaveInv, LeaveTyped, Continue, Alone
<1>2. ASSUME NEW q \in Proc PROVE InTurn(call[q])'
  BY <1>1 DEF InTurn, Decidable
<1> QED
  BY <1>1, <1>2 DEF TurnsInv

\* Steps that write no leave.
LEMMA TurnOnlyGoesOn ==
  ASSUME LeaveInv, TurnsInv, TakeTurns, NEW p \in Proc, NEW c, Continue(p, c),
         call[p] # Idle \/ c # Idle,
         leave' = leave, linked' = linked, approval' = approval, InTurn(c)
  PROVE  TurnsInv' /\ \A r \in LeaveId : DecisionStands(r)
<1>1. InTurn(c)' /\ \A r \in LeaveId : Follows(r)'
  BY DEF InTurn, Decidable, TurnsInv, Follows
<1> QED
  BY <1>1, HandlerAlone, TurnGoesOn DEF DecisionStands

LEMMA TurnBegins ==
  ASSUME LeaveInv, TurnsInv, TakeTurns, NEW p \in Proc, NEW r \in LeaveId,
         \/ CreateRead(p, r) \/ CancelRead(p, r)
         \/ \E st \in {"APPROVED", "REJECTED"} : DecideRead(p, r, st)
  PROVE  TurnsInv' /\ \A x \in LeaveId : DecisionStands(x)
<1>u. leave' = leave /\ linked' = linked /\ approval' = approval
  BY DEF CreateRead, CancelRead, DecideRead
<1>f. Follows(r) /\ leave[r] \in LeaveStatus
  BY DEF TurnsInv, LeaveInv, LeaveTyped
<1>1. PICK c : Continue(p, c) /\ InTurn(c) /\ c # Idle
  <2>1. ASSUME CreateRead(p, r) PROVE \E c : Continue(p, c) /\ InTurn(c) /\ c # Idle
    <3> DEFINE c == [next |-> "create", req |-> r]
    <3>1. Continue(p, c) /\ c \in Call
      BY <2>1 DEF CreateRead, Call
    <3>2. InTurn(c) /\ c # Idle
      BY <3>1, IdleAssumption DEF InTurn
    <3> HIDE DEF c
    <3> QED
      BY <3>1, <3>2
  <2>2. ASSUME CancelRead(p, r), linked[r] /\ leave[r] = "PENDING_APPROVAL"
        PROVE  \E c : Continue(p, c) /\ InTurn(c) /\ c # Idle
    <3> DEFINE c == [next |-> "withdraw", req |-> r]
    <3>1. Continue(p, c) /\ c \in Call
      BY <2>2 DEF CancelRead, Call
    <3>2. InTurn(c) /\ c # Idle
      BY <2>2, <3>1, IdleAssumption DEF InTurn
    <3> HIDE DEF c
    <3> QED
      BY <3>1, <3>2
  <2>3. ASSUME CancelRead(p, r), ~(linked[r] /\ leave[r] = "PENDING_APPROVAL")
        PROVE  \E c : Continue(p, c) /\ InTurn(c) /\ c # Idle
    <3> DEFINE c == [next |-> "outcome", req |-> r, st |-> "CANCELLED"]
    <3>1. Continue(p, c) /\ c \in Call
      BY <2>3 DEF CancelRead, Call, Outcome, Engine!Outcome
    <3>2. \/ leave[r] \in TERMINAL_LEAVE_STATUSES
          \/ leave[r] \notin TERMINAL_LEAVE_STATUSES /\ (linked[r] => approval[r] \in {"WITHDRAWN", "APPROVED"})
      BY <1>f, <2>3 DEF Follows, LeaveStatus, TERMINAL_LEAVE_STATUSES
    <3>3. InTurn(c) /\ c # Idle
      BY <3>1, <3>2, IdleAssumption DEF InTurn
    <3> HIDE DEF c
    <3> QED
      BY <3>1, <3>3
  <2>4. ASSUME NEW st \in {"APPROVED", "REJECTED"}, DecideRead(p, r, st)
        PROVE  \E c : Continue(p, c) /\ InTurn(c) /\ c # Idle
    <3> DEFINE c == [next |-> IF linked[r] THEN "decide" ELSE "outcome", req |-> r, st |-> st]
    <3>1. Continue(p, c) /\ c \in Call /\ Decidable(r)
      BY <2>4 DEF DecideRead, Call, Outcome, Engine!Outcome
    <3>2. InTurn(c) /\ c # Idle
      BY <3>1, IdleAssumption DEF InTurn
    <3> HIDE DEF c
    <3> QED
      BY <3>1, <3>2
  <2> QED
    BY <2>1, <2>2, <2>3, <2>4
<1> QED
  BY <1>u, <1>1, TurnOnlyGoesOn

\* createRequest after its first read.
LEMMA TurnCreates ==
  ASSUME LeaveInv, TurnsInv, TakeTurns, NEW p \in Proc, CreateCommit(p) \/ Submit(p) \/ Link(p)
  PROVE  TurnsInv' /\ \A x \in LeaveId : DecisionStands(x)
<1> LeaveTyped
  BY DEF LeaveInv
<1>o. {"APPROVED", "REJECTED", "CANCELLED", "WITHDRAWN"} = Outcome
  BY DEF Outcome, Engine!Outcome
<1>1. CASE CreateCommit(p)
  <2>1. At(p, "create") /\ call[p] # Idle
    BY <1>1 DEF CreateCommit, At
  <2>2. PICK r \in LeaveId : r = call[p].req /\ leave[r] = "NONE"
    BY <2>1, CallFields DEF At, LeaveInv, CallsStand, CallStands
  <2>3. ~linked[r]
    BY <2>2 DEF TurnsInv, Follows
  <2> DEFINE st == IF RequiresApproval[r] THEN "PENDING_APPROVAL" ELSE "SUBMITTED"
  <2>4. /\ \A x \in LeaveId : leave'[x] = IF x = r THEN st ELSE leave[x]
        /\ linked' = linked /\ approval' = approval
    BY <1>1, <2>2 DEF CreateCommit, LeaveTyped
  <2>5. PICK c : /\ Continue(p, c) /\ c.req = r
                 /\ \/ c.next = "submit" /\ st = "PENDING_APPROVAL"
                    \/ c.next = "outcome" /\ c.st = "APPROVED" /\ st = "SUBMITTED"
    <3>1. CASE RequiresApproval[r]
      <4>1. Continue(p, [next |-> "submit", req |-> r]) /\ st = "PENDING_APPROVAL"
        BY <1>1, <2>2, <3>1 DEF CreateCommit
      <4> HIDE DEF st
      <4> QED
        BY <4>1
    <3>2. CASE ~RequiresApproval[r]
      <4>1. /\ Continue(p, [next |-> "outcome", req |-> r, st |-> "APPROVED"])
            /\ st = "SUBMITTED"
        BY <1>1, <2>2, <3>2 DEF CreateCommit
      <4> HIDE DEF st
      <4> QED
        BY <4>1
    <3> QED
      BY <3>1, <3>2
  <2>6. InTurn(c)'
    BY <2>3, <2>4, <2>5 DEF InTurn, Decidable
  <2>7. \A x \in LeaveId : Follows(x)' /\ DecisionStands(x)
    BY <2>2, <2>3, <2>4 DEF TurnsInv, Follows, DecisionStands, TERMINAL_LEAVE_STATUSES
  <2> QED
    BY <2>1, <2>5, <2>6, <2>7, HandlerAlone, TurnGoesOn
<1>2. CASE Submit(p)
  <2>1. At(p, "submit") /\ call[p] # Idle
    BY <1>2 DEF Submit, At
  <2>2. PICK r \in LeaveId : r = call[p].req /\ leave[r] = "PENDING_APPROVAL" /\ ~linked[r]
    BY <2>1, CallFields DEF At, TurnsInv, InTurn
  <2>3. /\ \A x \in LeaveId \ {r} : approval'[x] = approval[x]
        /\ leave' = leave /\ linked' = linked
    BY <1>2, <2>2, EngineTyped DEF Submit
  <2>4. PICK b \in BOOLEAN : /\ Continue(p, [next |-> "link", req |-> r, approved |-> b])
                             /\ b => approval'[r] = "APPROVED"
    BY <1>2, <2>2 DEF Submit
  <2> DEFINE c == [next |-> "link", req |-> r, approved |-> b]
  <2>5. InTurn(c)'
    BY <2>2, <2>3, <2>4 DEF InTurn
  <2>6. \A x \in LeaveId : Follows(x)' /\ DecisionStands(x)
    BY <2>2, <2>3 DEF TurnsInv, Follows, DecisionStands
  <2> HIDE DEF c
  <2>7. Continue(p, c)
    BY <2>4 DEF c
  <2> QED
    BY <2>1, <2>5, <2>6, <2>7, HandlerAlone, TurnGoesOn
<1>3. CASE Link(p)
  <2>1. At(p, "link") /\ call[p] # Idle
    BY <1>3 DEF Link, At
  <2>2. PICK r \in LeaveId : /\ r = call[p].req /\ leave[r] = "PENDING_APPROVAL" /\ ~linked[r]
                             /\ call[p].approved => approval[r] = "APPROVED"
    BY <2>1, CallFields DEF At, TurnsInv, InTurn
  <2>3. /\ leave' = leave /\ approval' = approval
        /\ \A x \in LeaveId : linked'[x] = IF x = r THEN TRUE ELSE linked[x]
    BY <1>3, <2>2 DEF Link, LeaveTyped
  <2>4. PICK c : /\ Continue(p, c)
                 /\ c # Idle => /\ c.next = "outcome" /\ c.req = r /\ c.st = "APPROVED"
                                /\ approval[r] = "APPROVED"
    BY <1>3, <2>2 DEF Link
  <2>5. InTurn(c)'
    BY <2>2, <2>3, <2>4 DEF InTurn, Decidable
  <2>6. \A x \in LeaveId : Follows(x)' /\ DecisionStands(x)
    BY <2>2, <2>3 DEF TurnsInv, Follows, DecisionStands
  <2> QED
    BY <2>1, <2>4, <2>5, <2>6, HandlerAlone, TurnGoesOn
<1> QED
  BY <1>1, <1>2, <1>3

\* The calls to the engine: it is asked only while the request is pending.
LEMMA TurnAsks ==
  ASSUME LeaveInv, TurnsInv, TakeTurns, NEW p \in Proc, EngineDecides(p) \/ EngineWithdraws(p)
  PROVE  TurnsInv' /\ \A x \in LeaveId : DecisionStands(x)
<1> LeaveTyped
  BY DEF LeaveInv
<1>o. {"APPROVED", "REJECTED", "CANCELLED", "WITHDRAWN"} = Outcome
  BY DEF Outcome, Engine!Outcome
<1>u. leave' = leave /\ linked' = linked /\ call[p] # Idle
      /\ (At(p, "decide") \/ At(p, "withdraw"))
  BY DEF EngineDecides, EngineWithdraws, At
<1>1. PICK r \in LeaveId : r = call[p].req
  BY <1>u, CallFields DEF At
<1>2. PICK c \in Call \cup {Idle} :
        /\ Continue(p, c)
        /\ \/ c = Idle /\ approval' = approval
           \/ approval[r] \in Outcome /\ c # Idle /\ c.next = "outcome"
           \/ /\ approval[r] = "PENDING" /\ \A x \in LeaveId \ {r} : approval'[x] = approval[x]
              /\ c.next = "outcome" /\ c.req = r /\ c.st # "WITHDRAWN"
              /\ \/ At(p, "decide") /\ c.st = approval'[r] /\ c.st \in {"APPROVED", "REJECTED"}
                 \/ At(p, "withdraw") /\ c.st = "CANCELLED" /\ approval'[r] = "WITHDRAWN"
  <2>1. ASSUME EngineDecides(p)
        PROVE  \E c \in Call \cup {Idle} :
                 /\ Continue(p, c)
                 /\ \/ c = Idle /\ approval' = approval
                    \/ approval[r] \in Outcome /\ c # Idle /\ c.next = "outcome"
                    \/ /\ approval[r] = "PENDING" /\ \A x \in LeaveId \ {r} : approval'[x] = approval[x]
                       /\ c.next = "outcome" /\ c.req = r
                       /\ At(p, "decide") /\ c.st = approval'[r] /\ c.st \in {"APPROVED", "REJECTED"}
    <3>1. At(p, "decide")
      BY <2>1 DEF EngineDecides
    <3>2. PICK st \in {"APPROVED", "REJECTED"} : st = call[p].st
      BY <1>u, <3>1, CallFields DEF At
    <3>3. \/ Engine!Decide(r, st)
          \/ Engine!Overturn(r, st)
          \/ approval[r] \in {"PENDING"} \cup Outcome /\ approval' = approval
      BY <1>1, <2>1, <3>2 DEF EngineDecides
    <3>4. Continue(p, IF approval'[r] = "PENDING" THEN Idle
                      ELSE [next |-> "outcome", req |-> r, st |-> approval'[r]])
      BY <1>1, <2>1 DEF EngineDecides
    <3>5. approval'[r] \in {"PENDING"} \cup Outcome
      BY <1>o, <3>2, <3>3, EngineTyped
    <3>6. CASE approval'[r] = "PENDING"
      <4>1. approval' = approval
        BY <1>o, <3>2, <3>3, <3>6, EngineTyped
      <4> QED
        BY <3>4, <3>6, <4>1
    <3>7. CASE approval'[r] \in Outcome
      <4> DEFINE c == [next |-> "outcome", req |-> r, st |-> approval'[r]]
      <4>1. c \in Call /\ c # Idle /\ c.next = "outcome" /\ c.req = r /\ c.st = approval'[r]
        BY <3>7, IdleAssumption DEF Call
      <4>2. Continue(p, c)
        BY <1>o, <3>4, <3>7
      <4>3. \/ approval[r] \in Outcome
            \/ /\ approval[r] = "PENDING" /\ approval'[r] = st
               /\ \A x \in LeaveId \ {r} : approval'[x] = approval[x]
        BY <1>o, <3>2, <3>3, <3>7, EngineTyped
      <4> HIDE DEF c
      <4> QED
        BY <3>1, <3>2, <4>1, <4>2, <4>3
    <3> QED
      BY <3>5, <3>6, <3>7
  <2>2. ASSUME EngineWithdraws(p)
        PROVE  \E c \in Call \cup {Idle} :
                 /\ Continue(p, c)
                 /\ \/ approval[r] \in Outcome /\ c # Idle /\ c.next = "outcome"
                    \/ /\ approval[r] = "PENDING" /\ \A x \in LeaveId \ {r} : approval'[x] = approval[x]
                       /\ c.next = "outcome" /\ c.req = r
                       /\ At(p, "withdraw") /\ c.st = "CANCELLED" /\ approval'[r] = "WITHDRAWN"
    <3> DEFINE c == [next |-> "outcome", req |-> r, st |-> "CANCELLED"]
    <3>1. /\ c \in Call /\ c # Idle /\ c.next = "outcome" /\ c.req = r /\ c.st = "CANCELLED"
          /\ Continue(p, c) /\ At(p, "withdraw")
      BY <1>1, <1>o, <2>2, IdleAssumption DEF Call, EngineWithdraws
    <3>2. Engine!Decide(r, "WITHDRAWN") \/ Engine!Overturn(r, "WITHDRAWN")
      BY <1>1, <2>2 DEF EngineWithdraws
    <3>3. \/ approval[r] \in Outcome
          \/ /\ approval[r] = "PENDING" /\ approval'[r] = "WITHDRAWN"
             /\ \A x \in LeaveId \ {r} : approval'[x] = approval[x]
      BY <1>o, <3>2, EngineTyped
    <3> HIDE DEF c
    <3> QED
      BY <3>1, <3>3
  <2>3. "WITHDRAWN" \notin {"APPROVED", "REJECTED"} /\ "CANCELLED" # "WITHDRAWN"
    OBVIOUS
  <2> QED
    BY <2>1, <2>2, <2>3
<1>3. ~(approval[r] \in Outcome /\ c # Idle /\ c.next = "outcome")
  <2>1. call'[p] = c
    BY <1>2 DEF Continue, LeaveTyped
  <2>2. approval[r] \in Outcome => c \in {call[p], Idle}
    BY <1>1, <1>u, <2>1 DEF TakeTurns
  <2> QED
    BY <1>u, <2>2 DEF At
<1>4. CASE c = Idle /\ approval' = approval
  BY <1>u, <1>2, <1>4, TurnOnlyGoesOn DEF InTurn
<1>5. CASE /\ approval[r] = "PENDING" /\ \A x \in LeaveId \ {r} : approval'[x] = approval[x]
           /\ c.next = "outcome" /\ c.req = r /\ c.st # "WITHDRAWN"
           /\ \/ At(p, "decide") /\ c.st = approval'[r] /\ c.st \in {"APPROVED", "REJECTED"}
              \/ At(p, "withdraw") /\ c.st = "CANCELLED" /\ approval'[r] = "WITHDRAWN"
  <2>1. /\ At(p, "decide") => Decidable(r)
        /\ At(p, "withdraw") => leave[r] = "PENDING_APPROVAL"
    BY <1>1, <1>u DEF At, TurnsInv, InTurn
  <2>2. InTurn(c)'
    BY <1>u, <1>5, <2>1 DEF InTurn, Decidable, TERMINAL_LEAVE_STATUSES
  <2>3. \A x \in LeaveId : Follows(x)' /\ DecisionStands(x)
    BY <1>u, <1>5 DEF TurnsInv, Follows, DecisionStands
  <2> QED
    BY <1>u, <1>2, <2>2, <2>3, HandlerAlone, TurnGoesOn
<1> QED
  BY <1>2, <1>3, <1>4, <1>5

\* applyLeaveOutcome.
LEMMA TurnApplies ==
  ASSUME LeaveInv, TurnsInv, TakeTurns, NEW p \in Proc,
         OutcomeRead(p) \/ OutcomeSearch(p) \/ OutcomeWrite(p)
  PROVE  TurnsInv' /\ \A x \in LeaveId : DecisionStands(x)
<1> LeaveTyped
  BY DEF LeaveInv
<1>o. {"APPROVED", "REJECTED", "CANCELLED", "WITHDRAWN"} = Outcome
  BY DEF Outcome, Engine!Outcome
<1>u. /\ call[p] # Idle /\ linked' = linked /\ approval' = approval
      /\ call[p].next \in {"outcome", "search", "write"}
  BY DEF OutcomeRead, OutcomeSearch, OutcomeWrite, At
<1>1. PICK r \in LeaveId, st \in Outcome : r = call[p].req /\ st = call[p].st
  BY <1>u, CallFields
<1>2. /\ st # "WITHDRAWN"
      /\ st \in {"APPROVED", "REJECTED"} => Decidable(r) /\ (linked[r] => approval[r] = st)
      /\ st = "CANCELLED" =>
           \/ call[p].next = "outcome" /\ leave[r] \in TERMINAL_LEAVE_STATUSES
           \/ /\ leave[r] \notin TERMINAL_LEAVE_STATUSES
              /\ linked[r] => approval[r] \in {"WITHDRAWN", "APPROVED"}
  BY <1>1, <1>u DEF TurnsInv, InTurn
<1>3. CASE OutcomeRead(p)
  <2>1. PICK c : /\ Continue(p, c)
                 /\ c # Idle => /\ c.next = "search" /\ c.req = r /\ c.st = st
                                /\ st # "APPROVED" => leave[r] \notin TERMINAL_LEAVE_STATUSES
    BY <1>1, <1>3 DEF OutcomeRead
  <2>2. leave' = leave
    BY <1>3 DEF OutcomeRead
  <2>3. InTurn(c)
    BY <1>2, <2>1 DEF InTurn
  <2> QED
    BY <1>u, <2>1, <2>2, <2>3, TurnOnlyGoesOn
<1>4. CASE OutcomeSearch(p)
  <2>1. PICK c : Continue(p, c) /\ c.next = "write" /\ c.req = r /\ c.st = st
    BY <1>1, <1>4 DEF OutcomeSearch
  <2>2. leave' = leave /\ call[p].next = "search"
    BY <1>4 DEF OutcomeSearch, At
  <2>3. InTurn(c)
    BY <1>2, <2>1, <2>2 DEF InTurn
  <2> QED
    BY <1>u, <2>1, <2>2, <2>3, TurnOnlyGoesOn
<1>5. CASE OutcomeWrite(p)
  <2>1. /\ Continue(p, Idle) /\ call[p].next = "write"
        /\ \A x \in LeaveId : leave'[x] = IF x = r THEN st ELSE leave[x]
    BY <1>1, <1>5 DEF OutcomeWrite, At, LeaveTyped
  <2>2. InTurn(Idle)'
    BY DEF InTurn
  <2>3. ASSUME NEW x \in LeaveId PROVE Follows(x)' /\ DecisionStands(x)
    <3>1. Follows(x)
      BY DEF TurnsInv
    <3>2. CASE x # r
      BY <1>u, <2>1, <3>1, <3>2 DEF Follows, DecisionStands
    <3>3. CASE x = r
      <4>1. st = "CANCELLED" \/ (st \in {"APPROVED", "REJECTED"} /\ Decidable(r))
        BY <1>2, <1>o
      <4>2. leave[r] \notin TERMINAL_LEAVE_STATUSES /\ (leave[r] = "APPROVED" => st = "CANCELLED")
        BY <1>2, <2>1, <4>1 DEF Decidable, TERMINAL_LEAVE_STATUSES
      <4> QED
        BY <1>u, <1>2, <2>1, <3>3, <4>1, <4>2 DEF Follows, DecisionStands
    <3> QED
      BY <3>2, <3>3
  <2> QED
    BY <1>u, <2>1, <2>2, <2>3, HandlerAlone, TurnGoesOn
<1> QED
  BY <1>3, <1>4, <1>5

\* Adjustments, handlers that stop, and the engine at its own endpoints.
LEMMA TurnElse ==
  ASSUME LeaveInv, TurnsInv, TakeTurns,
         \/ \E p \in Proc : Stop(p) \/ AdjustLedger(p) \/ \E n \in Adjustments : AdjustWrite(p, n)
         \/ \E r \in LeaveId, st \in Outcome : DecidedElsewhere(r, st)
         \/ UNCHANGED vars
  PROVE  TurnsInv' /\ \A x \in LeaveId : DecisionStands(x)
<1>1. ASSUME NEW p \in Proc,
             Stop(p) \/ AdjustLedger(p) \/ \E n \in Adjustments : AdjustWrite(p, n)
      PROVE  TurnsInv' /\ \A x \in LeaveId : DecisionStands(x)
  <2>1. leave' = leave /\ linked' = linked /\ approval' = approval
    BY <1>1 DEF Stop, AdjustLedger, AdjustWrite, balanceVars
  <2>2. CASE Stop(p) \/ AdjustLedger(p)
    <3>1. Continue(p, Idle) /\ call[p] # Idle /\ InTurn(Idle)
      BY <2>2 DEF Stop, AdjustLedger, At, InTurn
    <3> QED
      BY <2>1, <3>1, TurnOnlyGoesOn
  <2>3. ASSUME NEW n \in Adjustments, AdjustWrite(p, n)
        PROVE  TurnsInv' /\ \A x \in LeaveId : DecisionStands(x)
    <3> DEFINE c == [next |-> "ledger", minutes |-> n]
    <3>1. Continue(p, c) /\ c \in Call
      BY <2>3 DEF AdjustWrite, Call
    <3>2. InTurn(c) /\ c # Idle
      BY <3>1, IdleAssumption DEF InTurn
    <3> HIDE DEF c
    <3> QED
      BY <2>1, <3>1, <3>2, TurnOnlyGoesOn
  <2> QED
    BY <1>1, <2>2, <2>3
<1>2. ASSUME NEW r \in LeaveId, NEW st \in Outcome, DecidedElsewhere(r, st)
      PROVE  TurnsInv' /\ \A x \in LeaveId : DecisionStands(x)
  <2>1. /\ leave' = leave /\ linked' = linked /\ call' = call /\ approval[r] = "PENDING"
        /\ \A x \in LeaveId \ {r} : approval'[x] = approval[x]
    BY <1>2, EngineTyped DEF DecidedElsewhere, LeaveInv
  <2>2. ASSUME NEW p \in Proc PROVE InTurn(call[p])'
    <3>1. CASE call[p] = Idle
      BY <2>1, <3>1 DEF InTurn
    <3>2. CASE call[p] # Idle
      <4>1. call[p].next # "ledger" => call[p].req \in LeaveId
        BY <3>2, CallFields DEF LeaveInv
      <4>2. InTurn(call[p])
        BY DEF TurnsInv
      <4> QED
        BY <2>1, <3>2, <4>1, <4>2 DEF InTurn, Decidable
    <3> QED
      BY <3>1, <3>2
  <2>3. \A x \in LeaveId : Follows(x)' /\ DecisionStands(x)
    BY <2>1 DEF TurnsInv, Follows, DecisionStands
  <2> QED
    BY <2>1, <2>2, <2>3 DEF TurnsInv
<1>3. CASE UNCHANGED vars
  BY <1>3 DEF vars, balanceVars, TurnsInv, InTurn, Decidable, Follows, DecisionStands
<1> QED
  BY <1>1, <1>2, <1>3

LEMMA TurnsStep ==
  ASSUME LeaveInv, TurnsInv, (Next /\ TakeTurns) \/ UNCHANGED vars
  PROVE  TurnsInv' /\ \A x \in LeaveId : DecisionStands(x)
<1>t. CASE UNCHANGED vars
  BY <1>t DEF vars, balanceVars, TurnsInv, InTurn, Decidable, Follows, DecisionStands
<1>1. ASSUME TakeTurns, NEW p \in Proc,
             \/ CreateCommit(p) \/ Submit(p) \/ Link(p) \/ EngineDecides(p)
             \/ EngineWithdraws(p) \/ OutcomeRead(p) \/ OutcomeSearch(p)
             \/ OutcomeWrite(p) \/ AdjustLedger(p) \/ Stop(p)
             \/ \E r \in LeaveId :
                  \/ CreateRead(p, r) \/ CancelRead(p, r)
                  \/ \E st \in {"APPROVED", "REJECTED"} : DecideRead(p, r, st)
             \/ \E n \in Adjustments : AdjustWrite(p, n)
      PROVE  TurnsInv' /\ \A x \in LeaveId : DecisionStands(x)
  BY <1>1, TurnBegins, TurnCreates, TurnAsks, TurnApplies, TurnElse
<1>2. ASSUME TakeTurns, NEW r \in LeaveId, NEW st \in Outcome, DecidedElsewhere(r, st)
      PROVE  TurnsInv' /\ \A x \in LeaveId : DecisionStands(x)
  BY <1>2, TurnElse
<1> QED
  BY <1>t, <1>1, <1>2 DEF Next

LEMMA TurnsInvariant == MCLeaveSpec => [](LeaveInv /\ (inTurns => TurnsInv))
<1>1. MCInit => LeaveInv /\ (inTurns => TurnsInv)
  <2> SUFFICES ASSUME MCInit PROVE LeaveInv /\ TurnsInv
    OBVIOUS
  <2>1. LeaveInv
    BY LeaveStart DEF MCInit
  <2>2. TurnsInv
    BY DEF MCInit, Init, TurnsInv, InTurn, Follows
  <2> QED
    BY <2>1, <2>2
<1>2. LeaveInv /\ (inTurns => TurnsInv) /\ [MCNext]_<<vars, inTurns>>
        => (LeaveInv /\ (inTurns => TurnsInv))'
  <2> SUFFICES ASSUME LeaveInv, inTurns => TurnsInv, [MCNext]_<<vars, inTurns>>
               PROVE  LeaveInv' /\ (inTurns' => TurnsInv')
    OBVIOUS
  <2>1. [Next]_vars /\ inTurns' = inTurns /\ (inTurns => (Next /\ TakeTurns) \/ UNCHANGED vars)
    BY DEF MCNext
  <2> QED
    BY <2>1, LeaveStep, TurnsStep
<1> QED
  BY <1>1, <1>2, PTL DEF MCLeaveSpec

\* With handlers that take turns, linked leave is approved, rejected or
\* cancelled only as its approval request says, whichever chain of
\* createRequest or applyLeaveOutcome broke off.
THEOREM LeaveFollowsItsApproval == MCLeaveSpec => []LeaveFollowsApprovalInTurns
<1>1. LeaveInv /\ (inTurns => TurnsInv) => LeaveFollowsApprovalInTurns
  BY DEF LeaveFollowsApprovalInTurns, LeaveFollowsApproval, TurnsInv, Follows
<1> QED
  BY <1>1, TurnsInvariant, PTL

\* With handlers that take turns, decided leave stays decided; only approved
\* leave may still be cancelled (leave.service.ts:1387).
THEOREM LeaveDecisionsStand == MCLeaveSpec => LeaveDecisionIsFinalInTurns
<1>1. LeaveInv /\ (inTurns => TurnsInv) /\ [MCNext]_<<vars, inTurns>>
        => [inTurns => \A r \in LeaveId : DecisionStands(r)]_<<vars, inTurns>>
  <2> SUFFICES ASSUME LeaveInv, inTurns, TurnsInv, [MCNext]_<<vars, inTurns>>
               PROVE  \A r \in LeaveId : DecisionStands(r)
    OBVIOUS
  <2>1. (Next /\ TakeTurns) \/ UNCHANGED vars
    BY DEF MCNext
  <2> QED
    BY <2>1, TurnsStep
<1> QED
  BY <1>1, TurnsInvariant, PTL DEF MCLeaveSpec, LeaveDecisionIsFinalInTurns

----------------------------------------------------------------------------
(* The ledger *)

\* The minutes of a type, one request's after the other.
MinutesBy(t) == [r \in LeaveId |-> Minutes[r] * ledger[r][t]]

LEMMA MinutesAreSums ==
  ASSUME LeaveTyped, NEW t \in EntryType
  PROVE  /\ MinutesOf(t) = SumFunctionOnSet(MinutesBy(t), LeaveId) /\ MinutesOf(t) \in Int
         /\ \A r \in LeaveId : MinutesBy(t)[r] \in Int
<1>1. MinutesOf(t) = SumFunctionOnSet(MinutesBy(t), LeaveId)
  BY DEF MinutesOf, SumFunction, MinutesBy
<1>2. \A r \in LeaveId : MinutesBy(t)[r] \in Int
  BY MinutesAreNat DEF MinutesBy, LeaveTyped
<1> QED
  BY <1>1, <1>2, SumIsInt, LeaveAssumption

\* A row more in the ledger.
LEMMA EntryCounts ==
  ASSUME LeaveTyped, LeaveTyped', NEW r \in LeaveId, NEW t \in EntryType, Entry(r, t)
  PROVE  /\ MinutesOf(t)' = MinutesOf(t) + Minutes[r]
         /\ \A u \in EntryType \ {t} : MinutesOf(u)' = MinutesOf(u)
<1>1. /\ ledger'[r][t] = ledger[r][t] + 1
      /\ \A q \in LeaveId, u \in EntryType : q # r \/ u # t => ledger'[q][u] = ledger[q][u]
  BY DEF Entry, LeaveTyped
<1>2. MinutesOf(t)' = MinutesOf(t) + Minutes[r]
  <2>1. \A q \in LeaveId \ {r} : MinutesBy(t)[q] = MinutesBy(t)'[q]
    BY <1>1 DEF MinutesBy
  <2>2. MinutesBy(t)'[r] = MinutesBy(t)[r] + Minutes[r]
    <3>1. \A a, n \in Nat : a * (n + 1) = a * n + a
      OBVIOUS
    <3> QED
      BY <1>1, <3>1, MinutesAreNat DEF MinutesBy, LeaveTyped
  <2>3. /\ MinutesOf(t) = SumFunctionOnSet(MinutesBy(t), LeaveId) /\ MinutesOf(t) \in Int
        /\ \A q \in LeaveId : MinutesBy(t)[q] \in Int
    BY MinutesAreSums
  <2>4. /\ MinutesOf(t)' = SumFunctionOnSet(MinutesBy(t)', LeaveId)
        /\ \A q \in LeaveId : MinutesBy(t)'[q] \in Int
    <3>1. MinutesOf(t)' = SumFunctionOnSet(MinutesBy(t)', LeaveId)
      BY DEF MinutesOf, SumFunction, MinutesBy
    <3>2. \A q \in LeaveId : MinutesBy(t)'[q] \in Int
      BY MinutesAreNat DEF MinutesBy, LeaveTyped
    <3> QED
      BY <3>1, <3>2
  <2>5. MinutesOf(t)' = MinutesOf(t) - MinutesBy(t)[r] + MinutesBy(t)'[r]
    BY <2>1, <2>3, <2>4, SumChanges, LeaveAssumption
  <2> QED
    BY <2>2, <2>3, <2>5, MinutesAreNat
<1>3. ASSUME NEW u \in EntryType \ {t} PROVE MinutesOf(u)' = MinutesOf(u)
  <2>1. \A q \in LeaveId : ledger'[q][u] = ledger[q][u]
    BY <1>1
  <2>2. [q \in LeaveId |-> Minutes[q] * ledger'[q][u]] = [q \in LeaveId |-> Minutes[q] * ledger[q][u]]
    BY <2>1
  <2> QED
    BY <2>2 DEF MinutesOf
<1> QED
  BY <1>2, <1>3

LEMMA BalanceMovesExplained ==
  ASSUME LeaveTyped, LeaveTyped', LedgerExplainsPending, NEW r \in LeaveId,
         Reserve(r) \/ Use(r) \/ Release(r)
  PROVE  LedgerExplainsPending'
<1>1. /\ MinutesOf("REQUESTED") \in Int /\ MinutesOf("APPROVED_USAGE") \in Int
      /\ MinutesOf("CANCELLED_RESTORE") \in Int /\ Minutes[r] \in Nat
      /\ {"REQUESTED", "APPROVED_USAGE", "CANCELLED_RESTORE"} = EntryType
  BY MinutesAreSums, MinutesAreNat DEF EntryType
<1>2. CASE UNCHANGED balanceVars
  BY <1>2 DEF LedgerExplainsPending, MinutesOf, balanceVars
<1>3. CASE Entry(r, "REQUESTED") /\ pending' = pending + Minutes[r]
  BY <1>1, <1>3, EntryCounts DEF LedgerExplainsPending
<1>4. CASE Entry(r, "APPROVED_USAGE") /\ pending' = pending - Minutes[r]
  BY <1>1, <1>4, EntryCounts DEF LedgerExplainsPending
<1>5. CASE Entry(r, "CANCELLED_RESTORE") /\ pending' = pending - Minutes[r]
  BY <1>1, <1>5, EntryCounts DEF LedgerExplainsPending
<1> QED
  BY <1>2, <1>3, <1>4, <1>5 DEF Reserve, Use, Release

LEMMA LedgerStep ==
  LeaveInv /\ LeaveInv' /\ LedgerExplainsPending /\ [Next]_vars => LedgerExplainsPending'
<1> SUFFICES ASSUME LeaveInv, LeaveInv', LedgerExplainsPending, [Next]_vars
             PROVE  LedgerExplainsPending'
  OBVIOUS
<1>1. LeaveTyped /\ LeaveTyped'
  BY DEF LeaveInv
<1>2. ASSUME ledger' = ledger, pending' = pending PROVE LedgerExplainsPending'
  BY <1>2 DEF LedgerExplainsPending, MinutesOf
<1>3. ASSUME NEW p \in Proc, CreateCommit(p) PROVE LedgerExplainsPending'
  <2>1. call[p].req \in LeaveId
    BY <1>1, <1>3, CallFields DEF CreateCommit, At
  <2> QED
    BY <1>1, <1>3, <2>1, BalanceMovesExplained DEF CreateCommit
<1>4. ASSUME NEW p \in Proc, OutcomeWrite(p) PROVE LedgerExplainsPending'
  <2>1. call[p].req \in LeaveId
    BY <1>1, <1>4, CallFields DEF OutcomeWrite, At
  <2>2. UNCHANGED balanceVars \/ Use(call[p].req) \/ Release(call[p].req)
    BY <1>4 DEF OutcomeWrite
  <2>3. CASE UNCHANGED balanceVars
    BY <1>2, <2>3 DEF balanceVars
  <2> QED
    BY <1>1, <2>1, <2>2, <2>3, BalanceMovesExplained
<1>5. ASSUME NEW p \in Proc,
             \/ Submit(p) \/ Link(p) \/ EngineDecides(p) \/ EngineWithdraws(p) \/ OutcomeRead(p)
             \/ OutcomeSearch(p) \/ Stop(p)
      PROVE  LedgerExplainsPending'
  BY <1>2, <1>5 DEF Submit, Link, EngineDecides, EngineWithdraws, OutcomeRead, OutcomeSearch,
                    Stop, balanceVars
<1>6. ASSUME NEW p \in Proc, AdjustLedger(p) \/ \E n \in Adjustments : AdjustWrite(p, n)
      PROVE  LedgerExplainsPending'
  BY <1>2, <1>6 DEF AdjustLedger, AdjustWrite
<1>7. ASSUME NEW p \in Proc, NEW r \in LeaveId,
             CreateRead(p, r) \/ CancelRead(p, r) \/ \E st \in {"APPROVED", "REJECTED"} : DecideRead(p, r, st)
      PROVE  LedgerExplainsPending'
  BY <1>2, <1>7 DEF CreateRead, CancelRead, DecideRead, balanceVars
<1>8. ASSUME NEW r \in LeaveId, NEW st \in Outcome, DecidedElsewhere(r, st)
      PROVE  LedgerExplainsPending'
  BY <1>2, <1>8 DEF DecidedElsewhere, balanceVars
<1>9. CASE UNCHANGED vars
  BY <1>2, <1>9 DEF vars, balanceVars
<1>10. CASE Next
  BY <1>3, <1>4, <1>5, <1>6, <1>7, <1>8, <1>10 DEF Next
<1> QED
  BY <1>9, <1>10

LEMMA LedgerStart == Init => LedgerExplainsPending
<1> SUFFICES ASSUME Init PROVE LedgerExplainsPending
  OBVIOUS
<1>1. \A t \in EntryType : MinutesOf(t) = SumFunctionOnSet([r \in LeaveId |-> 0], LeaveId)
  <2>1. \A t \in EntryType : [r \in LeaveId |-> Minutes[r] * ledger[r][t]] = [r \in LeaveId |-> 0]
    BY MinutesAreNat DEF Init
  <2> QED
    BY <2>1 DEF MinutesOf, SumFunction
<1>2. SumFunctionOnSet([r \in LeaveId |-> 0], LeaveId) = 0
  BY SumOfZeros, LeaveAssumption
<1> QED
  BY <1>1, <1>2 DEF LedgerExplainsPending, EntryType, Init

\* applyLeaveOutcome and createRequest: whatever handlers overlap and wherever
\* they stop, the pending minutes of a balance are what its ledger has reserved
\* and neither used nor restored, for any number of requests and minutes.
THEOREM PendingIsExplained == Spec => []LedgerExplainsPending
BY LeaveStart, LeaveStep, LedgerStart, LedgerStep, PTL DEF Spec

----------------------------------------------------------------------------
(* The types of LeaveRules *)

SettingsFit ==
  /\ today \in LeaveDay
  /\ leaveType \in [LeaveKind -> [documented : BOOLEAN] \cup {NotSet}]
  /\ leavePolicies \in Seq(LeavePolicyRow) /\ Len(leavePolicies) <= MaxLeavePolicies
  /\ blackout \in [Blackout -> BlackoutRow \cup {NotSet}]
  /\ route \in [Route -> RouteRow \cup {NotSet}]
  /\ coverageRule \in [CoverageRule -> CoverageRow \cup {NotSet}]
  /\ roster \subseteq Colleague \X LeaveDay
CalendarsFit == calendars \in Seq(CalendarRow) /\ Len(calendars) <= MaxCalendars
AskedFit == leaveAsked \in [AskedLeave -> AskedRow \cup {NotSet}]

LEMMA LeaveTypeParts == LeaveRulesTypeOK <=> SettingsFit /\ CalendarsFit /\ AskedFit
BY DEF LeaveRulesTypeOK, SettingsFit, CalendarsFit, AskedFit

LEMMA LeaveTypePartsThen == (LeaveRulesTypeOK <=> SettingsFit /\ CalendarsFit /\ AskedFit)'
BY DEF LeaveRulesTypeOK, SettingsFit, CalendarsFit, AskedFit

LEMMA RowReplaced ==
  ASSUME NEW R, NEW s \in Seq(R), NEW i \in DOMAIN s, NEW row \in R
  PROVE  [s EXCEPT ![i] = row] \in Seq(R) /\ Len([s EXCEPT ![i] = row]) = Len(s)
OBVIOUS

\* createCalendar and its like.
LEMMA UnmarkedFits ==
  ASSUME CalendarsFit, NEW row
  PROVE  Unmarked(row) \in Seq(CalendarRow) /\ Len(Unmarked(row)) = Len(calendars)
<1>1. Len(calendars) \in Nat /\ DOMAIN calendars = 1..Len(calendars) /\ \A c \in DOMAIN calendars : calendars[c] \in CalendarRow
  BY DEF CalendarsFit
<1>2. \A c \in DOMAIN calendars : [calendars[c] EXCEPT !.default = FALSE] \in CalendarRow
  BY <1>1 DEF CalendarRow
<1>3. CASE row.default
  <2>1. Unmarked(row) = [c \in DOMAIN calendars |-> [calendars[c] EXCEPT !.default = FALSE]]
    BY <1>3 DEF Unmarked
  <2>2. Unmarked(row) \in [1..Len(calendars) -> CalendarRow]
    BY <1>1, <1>2, <2>1
  <2> QED
    BY <1>1, <2>2
<1>4. CASE ~row.default
  BY <1>4 DEF Unmarked, CalendarsFit
<1> QED
  BY <1>3, <1>4

WithDay(s, c, d, row) == [s EXCEPT ![c].special[d] = row]

LEMMA WithDayFits ==
  ASSUME NEW s \in Seq(CalendarRow), NEW c \in DOMAIN s, NEW d \in LeaveDay, NEW row \in DayRow \cup {NotSet}
  PROVE  WithDay(s, c, d, row) \in Seq(CalendarRow) /\ Len(WithDay(s, c, d, row)) = Len(s)
<1> DEFINE new == [s[c] EXCEPT !.special[d] = row]
<1>1. s[c] \in CalendarRow
  OBVIOUS
<1>2. new \in CalendarRow
  BY <1>1 DEF CalendarRow
<1>3. WithDay(s, c, d, row) = [s EXCEPT ![c] = new]
  BY DEF WithDay
<1> HIDE DEF new
<1> QED
  BY <1>2, <1>3, RowReplaced

LEMMA CalendarStep ==
  ASSUME CalendarsFit, CalendarNext
  PROVE  CalendarsFit' /\ UNCHANGED <<today, leaveType, leavePolicies, blackout, route, coverageRule, leaveAsked, roster>>
<1>1. /\ Len(calendars) \in Nat /\ DOMAIN calendars = 1..Len(calendars) /\ Len(calendars) <= MaxCalendars
      /\ \A c \in DOMAIN calendars : calendars[c] \in CalendarRow
  BY DEF CalendarsFit
<1>2. ASSUME NEW row \in CalendarInput, CreateCalendar(row) PROVE CalendarsFit'
  <2> DEFINE new == [row EXCEPT !.special = [d \in LeaveDay |-> NotSet]]
             s == Unmarked(row)
  <2>1. row \in CalendarRow
    BY LeaveRulesAssumption
  <2>2. new \in CalendarRow
    BY <2>1 DEF CalendarRow
  <2>3. calendars' = Append(s, new) /\ Len(calendars) < MaxCalendars
    BY <1>2 DEF CreateCalendar
  <2>4. s \in Seq(CalendarRow) /\ Len(s) = Len(calendars)
    BY UnmarkedFits
  <2> HIDE DEF new, s
  <2>5. calendars' \in Seq(CalendarRow) /\ Len(calendars') = Len(calendars) + 1
    BY <2>2, <2>3, <2>4
  <2>6. Len(calendars') <= MaxCalendars
    <3>1. PICK n \in Nat : n = Len(calendars)
      BY <1>1
    <3>2. Len(calendars') = n + 1 /\ n < MaxCalendars /\ MaxCalendars \in Nat
      BY <2>3, <2>5, <3>1, LeaveRulesAssumption
    <3> QED
      BY <3>2
  <2> QED
    BY <2>5, <2>6 DEF CalendarsFit
<1>3. ASSUME NEW row \in CalendarInput, NEW c \in DOMAIN calendars, UpdateCalendar(c, row) PROVE CalendarsFit'
  <2> DEFINE new == [row EXCEPT !.special = calendars[c].special]
             s == Unmarked(row)
  <2>1. row \in CalendarRow /\ calendars[c] \in CalendarRow
    BY <1>1, LeaveRulesAssumption
  <2>2. new \in CalendarRow
    BY <2>1 DEF CalendarRow
  <2>3. calendars' = [s EXCEPT ![c] = new]
    BY <1>3 DEF UpdateCalendar
  <2>4. s \in Seq(CalendarRow) /\ Len(s) = Len(calendars)
    BY UnmarkedFits
  <2> HIDE DEF new, s
  <2>5. c \in DOMAIN s
    BY <1>1, <2>4
  <2>6. calendars' \in Seq(CalendarRow) /\ Len(calendars') = Len(calendars)
    BY <2>2, <2>3, <2>4, <2>5, RowReplaced
  <2> QED
    BY <1>1, <2>6 DEF CalendarsFit
<1>5. ASSUME NEW c \in DOMAIN calendars, NEW d \in LeaveDay, NEW row \in DayInput, CreateCalendarDay(c, d, row)
      PROVE  CalendarsFit'
  <2>1. row \in DayRow \cup {NotSet} /\ calendars' = WithDay(calendars, c, d, row)
    BY <1>5, LeaveRulesAssumption DEF CreateCalendarDay, WithDay
  <2>2. calendars \in Seq(CalendarRow) /\ Len(calendars) <= MaxCalendars
    BY DEF CalendarsFit
  <2> QED
    BY <2>1, <2>2, WithDayFits DEF CalendarsFit
<1>6. ASSUME NEW c \in DOMAIN calendars, NEW d \in LeaveDay, NEW c2 \in DOMAIN calendars, NEW d2 \in LeaveDay,
             NEW row \in DayInput, UpdateCalendarDay(c, d, c2, d2, row)
      PROVE  CalendarsFit'
  <2> DEFINE s == WithDay(calendars, c, d, NotSet)
  <2>1. row \in DayRow \cup {NotSet} /\ calendars' = WithDay(s, c2, d2, row)
    BY <1>6, LeaveRulesAssumption DEF UpdateCalendarDay, WithDay
  <2>2. calendars \in Seq(CalendarRow) /\ Len(calendars) <= MaxCalendars
    BY DEF CalendarsFit
  <2>3. s \in Seq(CalendarRow) /\ Len(s) = Len(calendars)
    BY <2>2, WithDayFits
  <2>4. DOMAIN s = DOMAIN calendars
    BY DEF WithDay
  <2> HIDE DEF s
  <2>5. Len(s) <= MaxCalendars /\ c2 \in DOMAIN s
    BY <2>2, <2>3, <2>4
  <2> QED
    BY <2>1, <2>3, <2>5, WithDayFits DEF CalendarsFit
<1>7. \/ \E row \in CalendarInput : CreateCalendar(row)
      \/ \E row \in CalendarInput : \E c \in DOMAIN calendars : UpdateCalendar(c, row)
      \/ \E c, c2 \in DOMAIN calendars, d, d2 \in LeaveDay, row \in DayInput :
           CreateCalendarDay(c, d, row) \/ UpdateCalendarDay(c, d, c2, d2, row)
  BY Zenon DEF CalendarNext
<1>8. UNCHANGED <<today, leaveType, leavePolicies, blackout, route, coverageRule, leaveAsked, roster>>
  <2>1. ASSUME NEW row, CreateCalendar(row)
        PROVE  UNCHANGED <<today, leaveType, leavePolicies, blackout, route, coverageRule, leaveAsked, roster>>
    BY <2>1 DEF CreateCalendar
  <2>2. ASSUME NEW c, NEW row, UpdateCalendar(c, row)
        PROVE  UNCHANGED <<today, leaveType, leavePolicies, blackout, route, coverageRule, leaveAsked, roster>>
    BY <2>2 DEF UpdateCalendar
  <2>3. ASSUME NEW c, NEW d, NEW c2, NEW d2, NEW row, CreateCalendarDay(c, d, row) \/ UpdateCalendarDay(c, d, c2, d2, row)
        PROVE  UNCHANGED <<today, leaveType, leavePolicies, blackout, route, coverageRule, leaveAsked, roster>>
    BY <2>3 DEF CreateCalendarDay, UpdateCalendarDay
  <2> QED
    BY <1>7, <2>1, <2>2, <2>3
<1> QED
  BY <1>2, <1>3, <1>5, <1>6, <1>7, <1>8

LEMMA RuleStep ==
  ASSUME SettingsFit, RuleNext
  PROVE  SettingsFit' /\ UNCHANGED <<calendars, leaveAsked>>
<1> USE LeaveRulesAssumption
<1>1. /\ Len(leavePolicies) \in Nat /\ DOMAIN leavePolicies = 1..Len(leavePolicies) /\ leavePolicies \in Seq(LeavePolicyRow)
      /\ Len(leavePolicies) <= MaxLeavePolicies
  BY DEF SettingsFit
<1>2. ASSUME NEW row \in LeavePolicyInput, CreateLeavePolicy(row) PROVE SettingsFit' /\ UNCHANGED <<calendars, leaveAsked>>
  <2>1. leavePolicies' = Append(leavePolicies, row) /\ Len(leavePolicies) < MaxLeavePolicies /\ row \in LeavePolicyRow
    BY <1>2 DEF CreateLeavePolicy
  <2>2. leavePolicies' \in Seq(LeavePolicyRow) /\ Len(leavePolicies') = Len(leavePolicies) + 1
    BY <1>1, <2>1
  <2>3. Len(leavePolicies') <= MaxLeavePolicies
    <3>1. PICK n \in Nat : n = Len(leavePolicies)
      BY <1>1
    <3>2. Len(leavePolicies') = n + 1 /\ n < MaxLeavePolicies /\ MaxLeavePolicies \in Nat
      BY <2>1, <2>2, <3>1
    <3> QED
      BY <3>2
  <2> QED
    BY <1>2, <2>2, <2>3 DEF CreateLeavePolicy, SettingsFit
<1>3. ASSUME NEW row \in LeavePolicyInput, NEW p \in DOMAIN leavePolicies, UpdateLeavePolicy(p, row)
      PROVE  SettingsFit' /\ UNCHANGED <<calendars, leaveAsked>>
  <2>1. leavePolicies' = [leavePolicies EXCEPT ![p] = row] /\ row \in LeavePolicyRow
    BY <1>3 DEF UpdateLeavePolicy
  <2>2. leavePolicies' \in Seq(LeavePolicyRow) /\ Len(leavePolicies') = Len(leavePolicies)
    BY <1>1, <2>1, RowReplaced
  <2> QED
    BY <1>1, <1>3, <2>2 DEF UpdateLeavePolicy, SettingsFit
<1>4. ASSUME NEW k \in LeaveKind, NEW documented \in BOOLEAN, PutLeaveType(k, documented)
      PROVE  SettingsFit' /\ UNCHANGED <<calendars, leaveAsked>>
  BY <1>4 DEF PutLeaveType, SettingsFit
<1>5. ASSUME NEW b \in Blackout, NEW row \in BlackoutInput, PutBlackoutWindow(b, row)
      PROVE  SettingsFit' /\ UNCHANGED <<calendars, leaveAsked>>
  BY <1>5 DEF PutBlackoutWindow, SettingsFit
<1>6. ASSUME NEW p \in Route, NEW row \in RouteInput, PutApprovalRule(p, row)
      PROVE  SettingsFit' /\ UNCHANGED <<calendars, leaveAsked>>
  BY <1>6 DEF PutApprovalRule, SettingsFit
<1>7. ASSUME NEW c \in CoverageRule, NEW row \in CoverageInput, PutCoverageRule(c, row)
      PROVE  SettingsFit' /\ UNCHANGED <<calendars, leaveAsked>>
  BY <1>7 DEF PutCoverageRule, SettingsFit
<1>8. ASSUME LeaveDayPasses PROVE SettingsFit' /\ UNCHANGED <<calendars, leaveAsked>>
  BY <1>8 DEF LeaveDayPasses, SettingsFit, LeaveDay
<1> QED
  BY <1>2, <1>3, <1>4, <1>5, <1>6, <1>7, <1>8 DEF RuleNext

----------------------------------------------------------------------------
(* What a leave costs *)

LEMMA LeaveNumbers ==
  /\ DayHours \in Nat \ {0} /\ WeekLength \in Nat \ {0} /\ LastDay \in Nat
  /\ (LastDay + 1) * DayHours \in Nat
  /\ \A h \in LeaveHour : h \in Int
  /\ NoAmount = -1 /\ NoDay = -1 /\ LeaveDay \subseteq Int
BY LeaveRulesAssumption DEF LeaveHour, NoAmount, NoDay, LeaveDay

\* overlapMinutes.
LEMMA OverlapIs ==
  ASSUME NEW from \in Int, NEW to \in Int, NEW d \in Int, NEW x \in Int, NEW y \in Int,
         x = d * DayHours, y = (d + 1) * DayHours
  PROVE  OverlapHours(from, to, d) =
           LET least == IF to <= y THEN to ELSE y
               most == IF from >= x THEN from ELSE x
           IN IF 0 >= least - most THEN 0 ELSE least - most
<1>1. Min({to, y}) = (IF to <= y THEN to ELSE y) /\ Min({to, y}) \in Int
  BY LesserOfTwo
<1>2. Max({from, x}) = (IF from >= x THEN from ELSE x) /\ Max({from, x}) \in Int
  BY GreaterOfTwo
<1>3. PICK n \in Int : n = Min({to, y}) - Max({from, x})
  BY <1>1, <1>2
<1>4. OverlapHours(from, to, d) = Max({0, n})
  BY <1>3 DEF OverlapHours
<1>5. Max({0, n}) = IF 0 >= n THEN 0 ELSE n
  BY GreaterOfTwo
<1> QED
  BY <1>1, <1>2, <1>3, <1>4, <1>5

LEMMA DayBounds ==
  ASSUME NEW d \in Int
  PROVE  d * DayHours \in Int /\ (d + 1) * DayHours \in Int /\ (d + 1) * DayHours = d * DayHours + DayHours
BY LeaveNumbers

LEMMA OverlapIsNat ==
  ASSUME NEW from \in Int, NEW to \in Int, NEW d \in Int
  PROVE  OverlapHours(from, to, d) \in Nat
<1>1. PICK x \in Int, y \in Int : x = d * DayHours /\ y = (d + 1) * DayHours
  BY DayBounds
<1> QED
  BY <1>1, OverlapIs

\* The hours of a day that a window has are those of its two pieces.
LEMMA OverlapSplits ==
  ASSUME NEW from \in Int, NEW cut \in Int, NEW to \in Int, from < cut, cut < to, NEW d \in Int
  PROVE  OverlapHours(from, to, d) = OverlapHours(from, cut, d) + OverlapHours(cut, to, d)
<1>1. PICK x \in Int, y \in Int : x = d * DayHours /\ y = (d + 1) * DayHours
  BY DayBounds
<1>2. x < y
  BY <1>1, DayBounds, LeaveNumbers
<1> QED
  BY <1>1, <1>2, OverlapIs

\* evaluateCalendarWindow looks at every day that the window has hours of.
LEMMA NoHoursOutside ==
  ASSUME NEW from \in Int, NEW to \in Int, from < to, NEW d \in Int, d \notin DaysOfWindow(from, to)
  PROVE  OverlapHours(from, to, d) = 0
<1>1. PICK x \in Int, y \in Int : x = d * DayHours /\ y = (d + 1) * DayHours /\ y = x + DayHours
  BY DayBounds
<1>2. PICK a \in Int, b \in Int : a = from \div DayHours /\ b = to \div DayHours
  BY DivMod, LeaveNumbers
<1>3. PICK p \in Int, q \in Int : p = a * DayHours /\ q = b * DayHours
  BY LeaveNumbers
<1>4. p <= from /\ to < q + DayHours
  <2>1. from = a * DayHours + (from % DayHours) /\ 0 <= from % DayHours /\ from % DayHours \in Int
    BY <1>2, DivMod, LeaveNumbers
  <2>2. to = b * DayHours + (to % DayHours) /\ to % DayHours < DayHours /\ to % DayHours \in Int
    BY <1>2, DivMod, LeaveNumbers
  <2> QED
    BY <1>3, <2>1, <2>2, LeaveNumbers
<1>5. d < a \/ b < d
  BY <1>2 DEF DaysOfWindow, DayOf
<1>6. CASE d < a
  <2>1. x + DayHours <= p
    BY <1>1, <1>3, <1>6, MultiplesApart, LeaveNumbers
  <2>2. y <= from
    BY <1>1, <1>4, <2>1, LeaveNumbers
  <2> QED
    BY <1>1, <2>2, OverlapIs
<1>7. CASE b < d
  <2>1. q + DayHours <= x
    BY <1>1, <1>3, <1>7, MultiplesApart, LeaveNumbers
  <2>2. to < x
    BY <1>1, <1>4, <2>1, LeaveNumbers
  <2> QED
    BY <1>1, <2>2, OverlapIs
<1> QED
  BY <1>5, <1>6, <1>7

LEMMA WorkdayIsNat ==
  ASSUME CalendarsFit, NEW c \in DOMAIN calendars, NEW d \in Int
  PROVE  WorkdayHours(c, d) \in Nat
<1>1. calendars[c] \in CalendarRow
  BY DEF CalendarsFit
<1>2. calendars[c].hours \in Nat /\ calendars[c].special \in [LeaveDay -> DayRow \cup {NotSet}]
  BY <1>1 DEF CalendarRow
<1> DEFINE special == IF d \in LeaveDay THEN calendars[c].special[d] ELSE NotSet
<1>3. special # NotSet => special.hours \in Nat \cup {NoAmount}
  BY <1>2 DEF DayRow
<1> HIDE DEF special
<1>4. WorkdayHours(c, d) \in {0, calendars[c].hours} \/ (special # NotSet /\ special.hours # NoAmount /\ WorkdayHours(c, d) = special.hours)
  BY DEF WorkdayHours, special
<1> QED
  BY <1>2, <1>3, <1>4

\* What a day adds to the business hours of a window.
DayCost(c, from, to, d) == Min({OverlapHours(from, to, d), WorkdayHours(c, d)})

LEMMA DayCostIs ==
  ASSUME CalendarsFit, NEW c \in DOMAIN calendars, NEW from \in Int, NEW to \in Int, NEW d \in Int
  PROVE  /\ DayCost(c, from, to, d) \in Nat
         /\ DayCost(c, from, to, d) = IF OverlapHours(from, to, d) <= WorkdayHours(c, d)
                                      THEN OverlapHours(from, to, d) ELSE WorkdayHours(c, d)
<1>1. OverlapHours(from, to, d) \in Nat /\ WorkdayHours(c, d) \in Nat
  BY OverlapIsNat, WorkdayIsNat
<1> QED
  BY <1>1, LesserOfTwo DEF DayCost

LEMMA BusinessHoursAdd ==
  ASSUME NEW c, c # 0, NEW from, NEW to, IsFiniteSet(DaysOfWindow(from, to))
  PROVE  BusinessHours(c, from, to) =
           SumFunctionOnSet([d \in DaysOfWindow(from, to) |-> DayCost(c, from, to, d)], DaysOfWindow(from, to))
<1> DEFINE D == DaysOfWindow(from, to)
           f == [d \in D |-> DayCost(c, from, to, d)]
           Costs(k) == k = [s \in SUBSET D |-> IF s = {} THEN 0 ELSE
                              DayCost(c, from, to, CHOOSE x \in s : TRUE) + k[s \ {CHOOSE x \in s : TRUE}]]
           h == CHOOSE k : k = [s \in SUBSET D |-> IF s = {} THEN 0 ELSE
                              DayCost(c, from, to, CHOOSE x \in s : TRUE) + k[s \ {CHOOSE x \in s : TRUE}]]
<1>1. BusinessHours(c, from, to) = h[D]
  BY Zenon DEF BusinessHours, DayCost, MapThenSumSet, MapThenFoldSet
<1>2. PICK g : Adds(g, f, D)
  BY AddsExists
<1>3. ASSUME NEW k PROVE Adds(k, f, D) <=> Costs(k)
  <2>1. \A s \in SUBSET D : s # {} => f[Taken(s)] = DayCost(c, from, to, CHOOSE x \in s : TRUE)
    BY TakenFrom DEF Taken
  <2> HIDE DEF f
  <2> QED
    BY <2>1 DEF Adds, Taken
<1>4. Adds(h, f, D)
  <2>1. h = CHOOSE k : Costs(k)
    BY Zenon
  <2> HIDE DEF f, D, Costs, h
  <2>2. Costs(g)
    BY <1>2, <1>3
  <2>3. Costs(h)
    BY <2>1, <2>2, Zenon
  <2> QED
    BY <1>3, <2>3
<1> HIDE DEF h, f
<1>5. SumFunctionOnSet(f, D) = h[D]
  BY <1>4, SumAdds
<1> QED
  BY <1>1, <1>5 DEF f

\* The cost of a window may be added up over any days that include its own.
LEMMA CostOverMoreDays ==
  ASSUME CalendarsFit, NEW c \in DOMAIN calendars, NEW from \in Int, NEW to \in Int, from < to,
         NEW D, IsFiniteSet(D), D \subseteq Int, DaysOfWindow(from, to) \subseteq D,
         NEW f, \A d \in D : f[d] = DayCost(c, from, to, d)
  PROVE  BusinessHours(c, from, to) = SumFunctionOnSet(f, D)
<1> DEFINE V == DaysOfWindow(from, to)
           e == [d \in V |-> DayCost(c, from, to, d)]
<1>1. c # 0
  BY DEF CalendarsFit
<1>2. IsFiniteSet(V)
  BY FS_Subset
<1>3. BusinessHours(c, from, to) = SumFunctionOnSet(e, V)
  BY <1>1, <1>2, BusinessHoursAdd
<1>4. SumFunctionOnSet(e, V) = SumFunctionOnSet(f, V)
  <2>1. \A d \in V : e[d] = f[d]
    OBVIOUS
  <2> HIDE DEF e, V
  <2> QED
    BY <1>2, <2>1, SumSame
<1>5. \A d \in D : f[d] \in Int
  BY DayCostIs
<1>6. \A d \in D \ V : f[d] = 0
  <2> SUFFICES ASSUME NEW d \in D \ V PROVE f[d] = 0
    OBVIOUS
  <2>1. OverlapHours(from, to, d) = 0
    BY NoHoursOutside
  <2>2. WorkdayHours(c, d) \in Nat
    BY WorkdayIsNat
  <2> QED
    BY <2>1, <2>2, DayCostIs
<1>8. V \in SUBSET D
  OBVIOUS
<1> HIDE DEF V
<1>7. SumFunctionOnSet(f, V) = SumFunctionOnSet(f, D)
  BY <1>5, <1>6, <1>8, SumOfSupport
<1> QED
  BY <1>3, <1>4, <1>7

\* What the pieces of a window cost by the calendar, and what it costs at once.
LEMMA PiecesCost ==
  ASSUME CalendarsFit, NEW c \in DOMAIN calendars, NEW from \in Int, NEW cut \in Int, NEW to \in Int,
         from < cut, cut < to
  PROVE  /\ BusinessHours(c, from, to) \in Nat /\ BusinessHours(c, from, cut) \in Nat /\ BusinessHours(c, cut, to) \in Nat
         /\ BusinessHours(c, from, to) <= BusinessHours(c, from, cut) + BusinessHours(c, cut, to)
         /\ BusinessHours(c, from, cut) <= BusinessHours(c, from, to)
         /\ BusinessHours(c, cut, to) <= BusinessHours(c, from, to)
<1> DEFINE D == DaysOfWindow(from, to)
           f == [d \in D |-> DayCost(c, from, to, d)]
           g == [d \in D |-> DayCost(c, from, cut, d)]
           h == [d \in D |-> DayCost(c, cut, to, d)]
           gh == [d \in D |-> g[d] + h[d]]
<1>1. PICK a \in Int, b \in Int, m \in Int : a = DayOf(from) /\ b = DayOf(to) /\ m = DayOf(cut)
  BY DivMod, LeaveNumbers DEF DayOf
<1>2. a <= m /\ m <= b
  BY <1>1, DivMonotone, LeaveNumbers DEF DayOf
<1>3. D = a..b /\ DaysOfWindow(from, cut) = a..m /\ DaysOfWindow(cut, to) = m..b
  BY <1>1 DEF DaysOfWindow
<1>4. IsFiniteSet(D) /\ D \subseteq Int /\ DaysOfWindow(from, cut) \subseteq D /\ DaysOfWindow(cut, to) \subseteq D
  <2>1. IsFiniteSet(a..b) /\ a..b \subseteq Int /\ a..m \subseteq a..b /\ m..b \subseteq a..b
    BY <1>2, FS_Interval
  <2> QED
    BY <1>3, <2>1
<1>5. ASSUME NEW d \in D
      PROVE  /\ f[d] \in Nat /\ g[d] \in Nat /\ h[d] \in Nat /\ gh[d] = g[d] + h[d]
             /\ f[d] <= g[d] + h[d] /\ g[d] <= f[d] /\ h[d] <= f[d]
  <2>1. d \in Int
    BY <1>4
  <2>2. /\ f[d] = DayCost(c, from, to, d) /\ g[d] = DayCost(c, from, cut, d)
        /\ h[d] = DayCost(c, cut, to, d) /\ gh[d] = g[d] + h[d]
    OBVIOUS
  <2> HIDE DEF f, g, h, gh
  <2>3. PICK w \in Nat, x \in Nat, y \in Nat :
          w = WorkdayHours(c, d) /\ x = OverlapHours(from, cut, d) /\ y = OverlapHours(cut, to, d)
    BY <2>1, WorkdayIsNat, OverlapIsNat
  <2>4. OverlapHours(from, to, d) = x + y
    BY <2>1, <2>3, OverlapSplits
  <2>5. /\ f[d] = (IF x + y <= w THEN x + y ELSE w) /\ g[d] = (IF x <= w THEN x ELSE w)
        /\ h[d] = (IF y <= w THEN y ELSE w)
    BY <2>1, <2>2, <2>3, <2>4, DayCostIs
  <2>6. f[d] \in Nat /\ g[d] \in Nat /\ h[d] \in Nat
    BY <2>5
  <2>7. f[d] <= g[d] + h[d]
    BY <2>5
  <2>8. g[d] <= f[d] /\ h[d] <= f[d]
    BY <2>5
  <2> QED
    BY <2>2, <2>6, <2>7, <2>8
<1>6. from < to
  OBVIOUS
<1>7. BusinessHours(c, from, to) = SumFunctionOnSet(f, D)
  BY <1>4, <1>6, CostOverMoreDays
<1>8. BusinessHours(c, from, cut) = SumFunctionOnSet(g, D)
  BY <1>4, CostOverMoreDays
<1>9. BusinessHours(c, cut, to) = SumFunctionOnSet(h, D)
  BY <1>4, CostOverMoreDays
<1> HIDE DEF D, f, g, h, gh
<1>10. \A d \in D : f[d] \in Int /\ g[d] \in Int /\ h[d] \in Int /\ gh[d] \in Int /\ f[d] <= gh[d]
  BY <1>5
<1>11. D \in SUBSET D
  OBVIOUS
<1>12. SumFunctionOnSet(gh, D) = SumFunctionOnSet(g, D) + SumFunctionOnSet(h, D)
  <2>1. AddUpTo(D, g, h, gh)
    BY <1>5 DEF AddUpTo
  <2> QED
    BY <1>4, <2>1, SumOfSums
<1>13. SumFunctionOnSet(f, D) <= SumFunctionOnSet(gh, D)
  BY <1>4, <1>10, <1>11, SumMonotone
<1>14. SumFunctionOnSet(g, D) <= SumFunctionOnSet(f, D)
  BY <1>4, <1>5, <1>10, <1>11, SumMonotone
<1>15. SumFunctionOnSet(h, D) <= SumFunctionOnSet(f, D)
  BY <1>4, <1>5, <1>10, <1>11, SumMonotone
<1>16. SumFunctionOnSet(f, D) \in Nat /\ SumFunctionOnSet(g, D) \in Nat /\ SumFunctionOnSet(h, D) \in Nat
  BY <1>4, <1>5, <1>11, SumIsNat
<1> QED
  BY <1>7, <1>8, <1>9, <1>12, <1>13, <1>14, <1>15, <1>16

LEMMA SplittingCosts ==
  ASSUME CalendarsFit, NEW c \in {0} \cup DOMAIN calendars, NEW from \in Int, NEW cut \in Int, NEW to \in Int,
         from < cut, cut < to
  PROVE  LeaveCost(c, from, to) <= LeaveCost(c, from, cut) + LeaveCost(c, cut, to)
<1>1. CASE c = 0
  BY <1>1 DEF LeaveCost, BusinessHours
<1>2. CASE c # 0
  <2>1. PICK x \in Nat, y \in Nat, z \in Nat :
          x = BusinessHours(c, from, to) /\ y = BusinessHours(c, from, cut) /\ z = BusinessHours(c, cut, to)
    BY <1>2, PiecesCost
  <2>2. x <= y + z /\ y <= x /\ z <= x
    BY <1>2, <2>1, PiecesCost
  <2>3. /\ LeaveCost(c, from, to) = (IF x > 0 THEN x ELSE to - from)
        /\ LeaveCost(c, from, cut) = (IF y > 0 THEN y ELSE cut - from)
        /\ LeaveCost(c, cut, to) = (IF z > 0 THEN z ELSE to - cut)
    BY <2>1 DEF LeaveCost
  <2> QED
    BY <2>2, <2>3
<1> QED
  BY <1>1, <1>2

----------------------------------------------------------------------------
(* Requests *)

LEMMA CostIsNat ==
  ASSUME CalendarsFit, NEW c \in {0} \cup DOMAIN calendars, NEW from \in Int, NEW to \in Int, from < to
  PROVE  LeaveCost(c, from, to) \in Nat
<1>1. CASE c = 0
  BY <1>1 DEF LeaveCost, BusinessHours
<1>2. CASE c # 0
  <2> DEFINE D == DaysOfWindow(from, to)
             f == [d \in D |-> DayCost(c, from, to, d)]
  <2>1. from \div DayHours \in Int /\ to \div DayHours \in Int
    BY DivMod, LeaveNumbers
  <2>2. IsFiniteSet(D) /\ D \subseteq Int
    BY <2>1, FS_Interval DEF DaysOfWindow, DayOf
  <2>3. \A d \in D : f[d] \in Nat
    BY <1>2, <2>2, DayCostIs
  <2>4. BusinessHours(c, from, to) = SumFunctionOnSet(f, D)
    BY <1>2, <2>2, BusinessHoursAdd
  <2> HIDE DEF f, D
  <2>5. BusinessHours(c, from, to) \in Nat
    BY <2>2, <2>3, <2>4, SumIsNat
  <2> QED
    BY <2>5 DEF LeaveCost
<1> QED
  BY <1>1, <1>2

\* resolveCalendarForEmployee.
LEMMA CalendarResolves ==
  ASSUME CalendarsFit, NEW e
  PROVE  ResolveCalendarForEmployee(e) \in {0} \cup DOMAIN calendars
<1> DEFINE fitting == {c \in DOMAIN calendars :
                         calendars[c].status = "ACTIVE" /\ Fits(calendars[c].unit, AnyUnit, UnitOf[e])}
           Among(S, T) == IF S \cap T = {} THEN S ELSE S \cap T
           defaults == Among(fitting, {c \in fitting : calendars[c].default})
           preferred == Among(defaults, {c \in fitting : calendars[c].unit = UnitOf[e]})
<1>1. ResolveCalendarForEmployee(e) = IF fitting = {} THEN 0 ELSE Min(preferred)
  BY DEF ResolveCalendarForEmployee
<1>2. CASE fitting # {}
  <2>1. preferred \subseteq fitting /\ preferred # {} /\ fitting \subseteq DOMAIN calendars
    BY <1>2
  <2>2. DOMAIN calendars \subseteq Nat
    BY DEF CalendarsFit
  <2> HIDE DEF preferred
  <2>3. \E n \in preferred : \A m \in preferred : n <= m
    BY <2>1, <2>2, LeastNat
  <2>4. Min(preferred) \in preferred
    BY <2>3 DEF Min
  <2> QED
    BY <1>1, <1>2, <2>1, <2>4
<1> QED
  BY <1>1, <1>2

\* What createRequest writes.
LEMMA AskWrites ==
  ASSUME SettingsFit, CalendarsFit, AskedFit,
         NEW a \in AskedLeave, NEW e \in Colleague, NEW k \in LeaveKind, NEW chosen \in {0} \cup DOMAIN calendars,
         NEW from \in LeaveHour, NEW to \in LeaveHour, NEW given \in Amount, NEW document \in BOOLEAN,
         AskLeave(a, e, k, chosen, from, to, given, document)
  PROVE  \E new \in AskedRow :
           /\ new.employee = e /\ new.from = from /\ new.to = to /\ from < to
           /\ new.risk = CoverageImpact(e, from, to)
           /\ leaveAsked[a] = NotSet /\ leaveAsked' = [leaveAsked EXCEPT ![a] = new]
           /\ UNCHANGED <<today, leaveType, leavePolicies, calendars, blackout, route, coverageRule, roster>>
<1> DEFINE c == IF chosen # 0 THEN chosen ELSE ResolveCalendarForEmployee(e)
           cost == IF given # NoAmount THEN given ELSE LeaveCost(c, from, to)
           p == ActivePolicyForType(k)
           status == IF p = 0 \/ leavePolicies[p].approval THEN "PENDING_APPROVAL" ELSE "SUBMITTED"
           New(way) == [employee |-> e, kind |-> k, from |-> from, to |-> to, cost |-> cost,
                        status |-> status, risk |-> CoverageImpact(e, from, to), route |-> way]
<1>1. from \in Int /\ to \in Int /\ from < to
  BY LeaveNumbers DEF AskLeave
<1>2. PICK way \in ResolveApprovalRoute(e, k, p, cost) : leaveAsked' = [leaveAsked EXCEPT ![a] = New(way)]
  BY Zenon DEF AskLeave
<1>3. leaveAsked[a] = NotSet /\ UNCHANGED <<today, leaveType, leavePolicies, calendars, blackout, route, coverageRule, roster>>
  BY DEF AskLeave
<1>4. cost \in Nat
  <2>1. c \in {0} \cup DOMAIN calendars
    BY CalendarResolves
  <2> HIDE DEF c
  <2>2. LeaveCost(c, from, to) \in Nat
    BY <1>1, <2>1, CostIsNat
  <2> QED
    BY <2>2, LeaveRulesAssumption
<1>5. way \in {"rule", "policy", "module", "none"}
  BY <1>2 DEF ResolveApprovalRoute
<1>6. CoverageImpact(e, from, to) \in Risk
  BY DEF CoverageImpact, Risk
<1>7. status \in AskedStatus
  BY DEF AskedStatus
<1> HIDE DEF cost, status
<1>8. New(way) \in AskedRow
  BY <1>4, <1>5, <1>6, <1>7 DEF AskedRow
<1> WITNESS New(way) \in AskedRow
<1> QED
  BY <1>1, <1>2, <1>3

LEMMA SettleStep ==
  ASSUME AskedFit, NEW a \in AskedLeave, NEW status \in AskedStatus, SettleLeave(a, status)
  PROVE  /\ AskedFit' /\ leaveAsked[a] # NotSet /\ \A b \in AskedLeave \ {a} : leaveAsked'[b] = leaveAsked[b]
         /\ UNCHANGED <<today, leaveType, leavePolicies, calendars, blackout, route, coverageRule, roster>>
<1> DEFINE new == [leaveAsked[a] EXCEPT !.status = status]
<1>1. /\ leaveAsked[a] # NotSet /\ leaveAsked' = [leaveAsked EXCEPT ![a] = new]
      /\ UNCHANGED <<today, leaveType, leavePolicies, calendars, blackout, route, coverageRule, roster>>
  BY DEF SettleLeave
<1>2. leaveAsked[a] \in AskedRow
  BY <1>1 DEF AskedFit
<1>3. new \in AskedRow
  BY <1>2 DEF AskedRow
<1> HIDE DEF new
<1> QED
  BY <1>1, <1>3 DEF AskedFit

\* Whatever HR keeps and whoever asks, the rows have their types, and their
\* numbers stay within the bounds.
THEOREM LeaveRulesTypesHold == LeaveRulesSpec => []LeaveRulesTypeOK
<1>1. LeaveRulesInit => LeaveRulesTypeOK
  <2> SUFFICES ASSUME LeaveRulesInit PROVE LeaveRulesTypeOK
    OBVIOUS
  <2>1. leavePolicies \in Seq(LeavePolicyRow) /\ Len(leavePolicies) = 0 /\ calendars \in Seq(CalendarRow) /\ Len(calendars) = 0
    BY DEF LeaveRulesInit
  <2>2. today \in LeaveDay /\ MaxCalendars \in Nat /\ MaxLeavePolicies \in Nat
    BY LeaveRulesAssumption DEF LeaveRulesInit, LeaveDay
  <2> QED
    BY <2>1, <2>2 DEF LeaveRulesInit, LeaveRulesTypeOK
<1>2. LeaveRulesTypeOK /\ [LeaveRulesNext]_leaveRuleVars => LeaveRulesTypeOK'
  <2> SUFFICES ASSUME LeaveRulesTypeOK, [LeaveRulesNext]_leaveRuleVars PROVE LeaveRulesTypeOK'
    OBVIOUS
  <2>1. SettingsFit /\ CalendarsFit /\ AskedFit
    BY LeaveTypeParts
  <2>2. CASE CalendarNext
    <3>1. CalendarsFit' /\ UNCHANGED <<today, leaveType, leavePolicies, blackout, route, coverageRule, leaveAsked, roster>>
      BY <2>1, <2>2, CalendarStep
    <3>2. SettingsFit' /\ AskedFit'
      BY <2>1, <3>1 DEF SettingsFit, AskedFit
    <3> QED
      BY <3>1, <3>2, LeaveTypePartsThen
  <2>3. CASE RuleNext
    <3>1. SettingsFit' /\ UNCHANGED <<calendars, leaveAsked>>
      BY <2>1, <2>3, RuleStep
    <3>2. CalendarsFit' /\ AskedFit'
      BY <2>1, <3>1 DEF CalendarsFit, AskedFit
    <3> QED
      BY <3>1, <3>2, LeaveTypePartsThen
  <2>4. CASE AskNext
    <3>1. AskedFit' /\ UNCHANGED <<today, leaveType, leavePolicies, calendars, blackout, route, coverageRule, roster>>
      <4>1. ASSUME NEW a \in AskedLeave, NEW e \in Colleague, NEW k \in LeaveKind, NEW chosen \in {0} \cup DOMAIN calendars,
                   NEW from \in LeaveHour, NEW to \in LeaveHour, NEW given \in Amount, NEW document \in BOOLEAN,
                   AskLeave(a, e, k, chosen, from, to, given, document)
            PROVE  AskedFit' /\ UNCHANGED <<today, leaveType, leavePolicies, calendars, blackout, route, coverageRule, roster>>
        <5>1. PICK new \in AskedRow :
                /\ leaveAsked' = [leaveAsked EXCEPT ![a] = new]
                /\ UNCHANGED <<today, leaveType, leavePolicies, calendars, blackout, route, coverageRule, roster>>
          BY <2>1, <4>1, AskWrites
        <5> QED
          BY <2>1, <5>1 DEF AskedFit
      <4>2. ASSUME NEW a \in AskedLeave, NEW status \in AskedStatus, SettleLeave(a, status)
            PROVE  AskedFit' /\ UNCHANGED <<today, leaveType, leavePolicies, calendars, blackout, route, coverageRule, roster>>
        BY <2>1, <4>2, SettleStep
      <4> QED
        BY <2>4, <4>1, <4>2 DEF AskNext
    <3>2. SettingsFit' /\ CalendarsFit'
      BY <2>1, <3>1 DEF SettingsFit, CalendarsFit
    <3> QED
      BY <3>1, <3>2, LeaveTypePartsThen
  <2>5. CASE UNCHANGED leaveRuleVars
    BY <2>5 DEF leaveRuleVars, LeaveRulesTypeOK
  <2> QED
    BY <2>2, <2>3, <2>4, <2>5 DEF LeaveRulesNext
<1> QED
  BY <1>1, <1>2, PTL DEF LeaveRulesSpec

\* evaluateCalendarWindow and calculateAmount: whatever calendars and days HR
\* keeps, two consecutive pieces of a leave cost at least what it costs at once.
THEOREM SplittingNeverSaves == LeaveRulesSpec => []SplittingSavesNothing
<1>1. LeaveRulesTypeOK => SplittingSavesNothing
  <2> SUFFICES ASSUME LeaveRulesTypeOK, NEW c \in {0} \cup DOMAIN calendars,
                      NEW from \in LeaveHour, NEW cut \in LeaveHour, NEW to \in LeaveHour, from < cut, cut < to
               PROVE  LeaveCost(c, from, to) <= LeaveCost(c, from, cut) + LeaveCost(c, cut, to)
    BY DEF SplittingSavesNothing
  <2>1. from \in Int /\ cut \in Int /\ to \in Int /\ CalendarsFit
    BY LeaveNumbers, LeaveTypeParts
  <2> QED
    BY <2>1, SplittingCosts
<1> QED
  BY <1>1, LeaveRulesTypesHold, PTL

----------------------------------------------------------------------------
(* Coverage *)

\* A day of the roster that the leave has hours of is one of its days.
LEMMA DayIsLookedAt ==
  ASSUME NEW from \in Int, NEW to \in Int, from < to, NEW d \in Int,
         Overlapping(d * DayHours, (d + 1) * DayHours, from, to)
  PROVE  d \in DaysOfWindow(from, to)
<1>1. PICK x \in Int, y \in Int : x = d * DayHours /\ y = (d + 1) * DayHours
  BY DayBounds
<1>2. x < y
  BY <1>1, DayBounds, LeaveNumbers
<1>3. x < to /\ from < y
  BY <1>1 DEF Overlapping
<1>4. OverlapHours(from, to, d) # 0
  BY <1>1, <1>2, <1>3, OverlapIs
<1> QED
  BY <1>4, NoHoursOutside

\* A leave that does not overlap the day, or not the leave asked for, takes no
\* hours of that day from it.
LEMMA NoHoursShared ==
  ASSUME NEW a \in Int, NEW b \in Int, NEW from \in Int, NEW to \in Int, NEW d \in Int,
         ~Overlapping(a, b, from, to) \/ ~Overlapping(a, b, d * DayHours, (d + 1) * DayHours)
  PROVE  OverlapHours(Max({a, from}), Min({b, to}), d) = 0
<1>1. PICK x \in Int, y \in Int : x = d * DayHours /\ y = (d + 1) * DayHours
  BY DayBounds
<1>2. PICK s \in Int : s = Max({a, from}) /\ s = (IF a >= from THEN a ELSE from)
  BY GreaterOfTwo
<1>3. PICK t \in Int : t = Min({b, to}) /\ t = (IF b <= to THEN b ELSE to)
  BY LesserOfTwo
<1>4. a >= to \/ b <= from \/ a >= y \/ b <= x
  BY <1>1 DEF Overlapping
<1>5. OverlapHours(s, t, d) = 0
  BY <1>1, <1>2, <1>3, <1>4, OverlapIs
<1> QED
  BY <1>2, <1>3, <1>5

\* The strictest rule decides, and one colleague is always wanted.
LEMMA MinimumIsMost ==
  ASSUME SettingsFit, NEW e, NEW d
  PROVE  /\ MinimumHeadcount(e, d) \in Nat /\ MinimumHeadcount(e, d) >= 1
         /\ \A rule \in RulesOn(e, d) : coverageRule[rule].minimum <= MinimumHeadcount(e, d)
<1> DEFINE R == RulesOn(e, d)
           T == {coverageRule[c].minimum : c \in R}
           f == [c \in R |-> coverageRule[c].minimum]
           M == {1} \cup T
<1>1. R \subseteq CoverageRule
  BY DEF RulesOn
<1>2. \A c \in R : coverageRule[c].minimum \in Nat
  <2> SUFFICES ASSUME NEW c \in R PROVE coverageRule[c].minimum \in Nat
    OBVIOUS
  <2>1. coverageRule[c] \in CoverageRow
    BY DEF RulesOn, SettingsFit
  <2> QED
    BY <2>1 DEF CoverageRow
<1>3. IsFiniteSet(R)
  BY <1>1, FS_Subset, LeaveRulesAssumption
<1>4. f \in Surjection(R, T)
  BY DEF Surjection
<1>5. MinimumHeadcount(e, d) = Max(M)
  BY DEF MinimumHeadcount
<1>6. \A c \in R : coverageRule[c].minimum \in M
  OBVIOUS
<1>7. T \subseteq Nat /\ M = T \cup {1}
  BY <1>2
<1> HIDE DEF f, R, T
<1>8. IsFiniteSet(T)
  BY <1>3, <1>4, FS_Surjection
<1>9. IsFiniteSet(M) /\ M \subseteq Int /\ M \subseteq Nat /\ M # {} /\ 1 \in M
  BY <1>7, <1>8, FS_AddElement
<1> HIDE DEF M
<1>10. Max(M) \in M /\ \A y \in M : Max(M) >= y
  BY <1>9, GreatestOfMany
<1> QED
  BY <1>2, <1>5, <1>6, <1>9, <1>10 DEF R

\* Those who are counted as left: scheduled, not on approved leave, not asking.
LEMMA ProjectedAreLeft ==
  ASSUME NEW e, NEW from, NEW to, NEW d, ProjectedHeadcount(e, from, to, d) >= 1
  PROVE  LET left == (ScheduledOn(e, from, to, d) \ OnLeave(e, from, to, d, {"APPROVED"})) \ {e}
         IN IsFiniteSet(left) /\ Cardinality(left) \in Nat /\ ProjectedHeadcount(e, from, to, d) <= Cardinality(left)
<1> DEFINE S == ScheduledOn(e, from, to, d)
           O == OnLeave(e, from, to, d, {"APPROVED"})
           P == ProjectedHeadcount(e, from, to, d)
           one == IF e \in S THEN 1 ELSE 0
<1>1. S \subseteq Colleague /\ O \subseteq Colleague
  BY DEF ScheduledOn, Colleagues, OnLeave, Team
<1>2. P = Max({0, Cardinality(S) - Cardinality(O) - one}) /\ P >= 1
  BY DEF ProjectedHeadcount
<1>3. one = (IF e \in S THEN 1 ELSE 0) /\ one \in Nat
  OBVIOUS
<1> HIDE DEF S, O, P, one
<1>4. IsFiniteSet(S) /\ IsFiniteSet(O) /\ IsFiniteSet(S \cap O) /\ S \cap O \in SUBSET O
  BY <1>1, FS_Subset, LeaveRulesAssumption
<1>5. PICK s \in Nat, o \in Nat, i \in Nat : s = Cardinality(S) /\ o = Cardinality(O) /\ i = Cardinality(S \cap O)
  BY <1>4, FS_CardinalityType
<1>6. i <= o
  BY <1>4, <1>5, FS_Subset
<1>7. IsFiniteSet(S \ O) /\ Cardinality(S \ O) = s - i
  BY <1>4, <1>5, FS_Difference
<1>8. IsFiniteSet((S \ O) \ {e}) /\ Cardinality((S \ O) \ {e}) = IF e \in S \ O THEN s - i - 1 ELSE s - i
  BY <1>7, FS_RemoveElement
<1>9. Cardinality((S \ O) \ {e}) \in Nat
  BY <1>8, FS_CardinalityType
<1>10. P = s - o - one
  <2>1. s - o - one \in Int
    BY <1>3
  <2>2. PICK n \in Int : n = s - o - one
    BY <2>1
  <2>3. P = Max({0, n})
    BY <1>2, <1>5, <2>2
  <2>4. P = IF 0 >= n THEN 0 ELSE n
    BY <2>3, GreaterOfTwo
  <2> QED
    BY <1>2, <2>2, <2>4
<1>11. P <= Cardinality((S \ O) \ {e})
  BY <1>3, <1>6, <1>8, <1>10
<1> QED
  BY <1>8, <1>9, <1>11 DEF S, O, P

LEMMA RiskIsRead ==
  ASSUME SettingsFit, NEW e, NEW from, NEW to, CoverageImpact(e, from, to) # "HIGH", NEW d \in DaysOfWindow(from, to)
  PROVE  ~(ProjectedHeadcount(e, from, to, d) < MinimumHeadcount(e, d))
<1>1. RiskOn(e, from, to, d) # "HIGH"
  BY DEF CoverageImpact
<1> QED
  BY <1>1 DEF RiskOn

LEMMA ProjectedIsInt ==
  ASSUME NEW e, NEW from, NEW to, NEW d
  PROVE  ProjectedHeadcount(e, from, to, d) \in Int
<1> DEFINE S == ScheduledOn(e, from, to, d)
           O == OnLeave(e, from, to, d, {"APPROVED"})
           one == IF e \in S THEN 1 ELSE 0
<1>1. S \subseteq Colleague /\ O \subseteq Colleague
  BY DEF ScheduledOn, Colleagues, OnLeave, Team
<1>2. ProjectedHeadcount(e, from, to, d) = Max({0, Cardinality(S) - Cardinality(O) - one}) /\ one \in Int
  BY DEF ProjectedHeadcount
<1> HIDE DEF S, O, one
<1>3. Cardinality(S) \in Int /\ Cardinality(O) \in Int
  BY <1>1, FS_Subset, FS_CardinalityType, LeaveRulesAssumption
<1>4. PICK n \in Int : n = Cardinality(S) - Cardinality(O) - one
  BY <1>2, <1>3
<1> QED
  BY <1>2, <1>4, GreaterOfTwo

\* getCoverageImpact.
LEMMA EnoughWhenNotHigh ==
  ASSUME SettingsFit, AskedFit, NEW new \in AskedRow, new.from < new.to,
         CoverageImpact(new.employee, new.from, new.to) # "HIGH"
  PROVE  LeavesEnough(new)
<1> DEFINE e == new.employee
           from == new.from
           to == new.to
           Left(d) == {c \in Colleagues(e) \ {e} :
             /\ <<c, d>> \in roster
             /\ \A a \in AskedLeave : leaveAsked[a] # NotSet /\ leaveAsked[a].employee = c /\ leaveAsked[a].status = "APPROVED"
                  => OverlapHours(Max({leaveAsked[a].from, from}), Min({leaveAsked[a].to, to}), d) = 0}
<1>1. SUFFICES ASSUME NEW d \in LeaveDay, Overlapping(d * DayHours, (d + 1) * DayHours, from, to),
                      NEW rule \in RulesOn(e, d)
               PROVE  coverageRule[rule].minimum <= Cardinality(Left(d))
  BY DEF LeavesEnough
<1>2. from \in Int /\ to \in Int /\ d \in Int /\ from < to
  BY LeaveNumbers DEF AskedRow
<1>3. d \in DaysOfWindow(from, to)
  BY <1>1, <1>2, DayIsLookedAt
<1> DEFINE P == ProjectedHeadcount(e, from, to, d)
           S == ScheduledOn(e, from, to, d)
           O == OnLeave(e, from, to, d, {"APPROVED"})
           left == (S \ O) \ {e}
<1>4. /\ P \in Int /\ P >= 1
      /\ coverageRule[rule].minimum <= P /\ coverageRule[rule].minimum \in Int
  <2>1. PICK m \in Nat : m = MinimumHeadcount(e, d) /\ m >= 1 /\ coverageRule[rule].minimum <= m
    BY MinimumIsMost
  <2>2. coverageRule[rule] \in CoverageRow
    BY DEF RulesOn, SettingsFit
  <2>3. coverageRule[rule].minimum \in Nat
    BY <2>2 DEF CoverageRow
  <2>4. PICK n \in Int : n = P
    BY ProjectedIsInt
  <2>5. ~(n < m)
    BY <1>3, <2>1, <2>4, RiskIsRead
  <2> QED
    BY <2>1, <2>3, <2>4, <2>5
<1>5. IsFiniteSet(left) /\ Cardinality(left) \in Nat /\ P <= Cardinality(left)
  BY <1>4, ProjectedAreLeft
<1>6. left \subseteq Left(d)
  <2> SUFFICES ASSUME NEW c \in left PROVE c \in Left(d)
    OBVIOUS
  <2>1. c \in S /\ c \notin O /\ c # e
    OBVIOUS
  <2>2. c \in Colleagues(e) /\ <<c, d>> \in roster
    BY <2>1 DEF ScheduledOn
  <2>3. c \in Team(e, from, to)
    BY <1>3, <2>1 DEF Team
  <2>4. ASSUME NEW a \in AskedLeave, leaveAsked[a] # NotSet, leaveAsked[a].employee = c, leaveAsked[a].status = "APPROVED"
        PROVE  OverlapHours(Max({leaveAsked[a].from, from}), Min({leaveAsked[a].to, to}), d) = 0
    <3>1. leaveAsked[a] \in AskedRow
      BY <2>4 DEF AskedFit
    <3>2. leaveAsked[a].from \in Int /\ leaveAsked[a].to \in Int
      BY <3>1, LeaveNumbers DEF AskedRow
    <3>3. \/ ~Overlapping(leaveAsked[a].from, leaveAsked[a].to, from, to)
          \/ ~Overlapping(leaveAsked[a].from, leaveAsked[a].to, d * DayHours, (d + 1) * DayHours)
      BY <2>1, <2>3, <2>4 DEF OnLeave
    <3> QED
      BY <1>2, <3>2, <3>3, NoHoursShared
  <2> QED
    BY <2>1, <2>2, <2>4
<1>7. IsFiniteSet(Left(d))
  <2>1. Left(d) \subseteq Colleague
    BY DEF Colleagues
  <2> QED
    BY <2>1, FS_Subset, LeaveRulesAssumption
<1> HIDE DEF left, P, Left
<1>8. Cardinality(left) <= Cardinality(Left(d)) /\ Cardinality(Left(d)) \in Nat
  BY <1>6, <1>7, FS_Subset, FS_CardinalityType
<1> QED
  BY <1>4, <1>5, <1>8

\* getCoverageImpact, called by createRequest: a leave that is recorded with
\* less than a high risk leaves every coverage rule of the unit its minimum on
\* every day of the leave.
THEOREM RiskNeverUnderstated == LeaveRulesSpec => RiskNotUnderstated
<1> DEFINE Recorded == \A a \in AskedLeave :
             leaveAsked[a] = NotSet /\ leaveAsked'[a] # NotSet /\ leaveAsked'[a].risk # "HIGH" => LeavesEnough(leaveAsked'[a])
<1>1. LeaveRulesTypeOK /\ [LeaveRulesNext]_leaveRuleVars => [Recorded]_leaveRuleVars
  <2> SUFFICES ASSUME LeaveRulesTypeOK, LeaveRulesNext,
                      NEW b \in AskedLeave, leaveAsked[b] = NotSet, leaveAsked'[b] # NotSet, leaveAsked'[b].risk # "HIGH"
               PROVE  LeavesEnough(leaveAsked'[b])
    OBVIOUS
  <2>1. SettingsFit /\ CalendarsFit /\ AskedFit
    BY LeaveTypeParts
  <2>2. leaveAsked' # leaveAsked
    OBVIOUS
  <2>3. CASE CalendarNext
    BY <2>1, <2>2, <2>3, CalendarStep
  <2>4. CASE RuleNext
    BY <2>1, <2>2, <2>4, RuleStep
  <2>5. CASE AskNext
    <3>1. ASSUME NEW a \in AskedLeave, NEW e \in Colleague, NEW k \in LeaveKind, NEW chosen \in {0} \cup DOMAIN calendars,
                 NEW from \in LeaveHour, NEW to \in LeaveHour, NEW given \in Amount, NEW document \in BOOLEAN,
                 AskLeave(a, e, k, chosen, from, to, given, document)
          PROVE  LeavesEnough(leaveAsked'[b])
      <4>1. PICK new \in AskedRow :
              /\ new.employee = e /\ new.from = from /\ new.to = to /\ from < to
              /\ new.risk = CoverageImpact(e, from, to)
              /\ leaveAsked' = [leaveAsked EXCEPT ![a] = new]
        BY <2>1, <3>1, AskWrites
      <4>2. b = a /\ leaveAsked'[b] = new
        BY <2>1, <4>1 DEF AskedFit
      <4>3. CoverageImpact(new.employee, new.from, new.to) # "HIGH" /\ new.from < new.to
        BY <4>1, <4>2
      <4>4. LeavesEnough(new)
        BY <2>1, <4>3, EnoughWhenNotHigh
      <4> QED
        BY <4>2, <4>4
    <3>2. ASSUME NEW a \in AskedLeave, NEW status \in AskedStatus, SettleLeave(a, status)
          PROVE  LeavesEnough(leaveAsked'[b])
      BY <2>1, <3>2, SettleStep
    <3> QED
      BY <2>5, <3>1, <3>2 DEF AskNext
  <2> QED
    BY <2>3, <2>4, <2>5 DEF LeaveRulesNext
<1>2. LeaveRulesSpec => [][Recorded]_leaveRuleVars
  BY <1>1, LeaveRulesTypesHold, PTL DEF LeaveRulesSpec
<1> QED
  BY <1>2 DEF RiskNotUnderstated
=============================================================================
