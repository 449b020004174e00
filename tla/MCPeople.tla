------------------------------- MODULE MCPeople -------------------------------
(***************************************************************************)
(* Delegations and the modules about people, their records and their        *)
(* accounts, checked in small instances.  A behaviour has one focus, chosen *)
(* at the start, and only what belongs to it moves: the states of the        *)
(* instances add up.                                                       *)
(***************************************************************************)
EXTENDS Delegations, EmployeeImport, Sessions, Staffing, Recruitment,
        EmployeeLifecycle, Forms, Documents

CONSTANTS m1, m2, x1, x2, tk1, it1, it2, t1, t2, t3, h1, h2

VARIABLE focus

recordVars == <<lifecycleVars, formVars, documentVars>>
mcVars == <<focus, delegationVars, importVars, sessionVars, staffingVars, recruitmentVars, recordVars>>

----------------------------------------------------------------------------
\* Sessions: credentials of accounts that are set up, or invitations.  Tokens
\* are issued and handlers begin in their order; sessions do not expire.
HandlersInOrder == asking[h1] = Resting => asking'[h2] \in {Resting, asking[h2]}
TokensInOrder ==
  /\ refresh'[t2] # "none" => refresh[t1] # "none"
  /\ refresh'[t3] # "none" => refresh[t2] # "none"

Credentials ==
  /\ focus = "sessions"
  /\ SessionsNext /\ UNCHANGED invitation /\ \A h \in AuthHandler : ~Has(h, "invite")'
  /\ HandlersInOrder /\ TokensInOrder
  /\ \A c \in Credential : session'[c] # "expired"
Invitations ==
  /\ focus = "invitations"
  /\ SessionsNext /\ UNCHANGED <<session, refresh>>
  /\ HandlersInOrder

\* Staffing: primary assignments without managers to no position or position
\* 1, secondary ones to position 1, and assignments with managers.
MCPlacements ==
  {row \in [employee : {m1, m2}, position : {1, NoPosition}, manager : {NoManager},
            from : Day, to : Day \cup {Forever}, isPrimary : BOOLEAN] :
     /\ row.to = Forever \/ row.to = row.from + 1
     /\ ~row.isPrimary => row.to = Forever /\ row.position # NoPosition}
  \cup [employee : {m1, m2}, position : {NoPosition}, manager : {m1, m2},
        from : {0}, to : {Forever}, isPrimary : {TRUE}]

OnePosition == \A p \in PositionId : position'[p] # NoRecord => p = 1

\* A position that was archived keeps its superior, and a reopened one may
\* close a circle (README): this focus leaves them archived.
NoRevival == \A p \in PositionId : position[p] # NoRecord /\ position[p].deleted => position'[p].deleted

Placing ==
  /\ focus = "placements"
  /\ PositionNext \/ PlacementNext \/ DayPasses
  /\ OnePosition
Reporting == focus = "hierarchy" /\ PositionNext /\ NoRevival

\* Employments: two of one person, of whom one is assigned.
MCSameHuman(e, f) == TRUE
Employing ==
  /\ focus = "employment"
  /\ EmploymentNext \/ PlacementNext \/ DayPasses
  /\ Cardinality(Placements') <= 1
  /\ \A a \in Placements' : /\ placement'[a].employee = m1 /\ placement'[a].position = NoPosition
                            /\ placement'[a].manager = NoManager
  /\ employee'[m2] # NoRecord => employee'[m2].status \in {"ACTIVE", "SEPARATED", "ARCHIVED"}

\* Recruitment: a requisition with its posting and applications, or an offer.
InOrder == request'[2] # "NONE" => request'[1] # "NONE"

Requisitions ==
  /\ focus = "requisitions"
  /\ RecruitmentNext /\ InOrder /\ UNCHANGED <<applicant, candidate>>
  /\ \A r \in Requisition : posting'[r] \in {"NONE", "PUBLISHED", "PAUSED"}
  /\ \A a \in Candidate \X Requisition : application'[a] # "HIRED"
Offers ==
  /\ focus = "offers"
  /\ RecruitmentNext /\ InOrder /\ UNCHANGED posting
  /\ \A r \in Requisition : paper'[r].status \in {"NONE", "OPEN"}

\* Lifecycle: a plan with its tasks; a case with two items, which may be set by
\* hand; or two cases with an item each.
Stops == \E h \in Officer : OfficerStops(h)
ByHand == officer' = officer /\ exit' # exit
ItemOf(c) == IF c = x1 THEN it1 ELSE it2

Planning == focus = "plans" /\ (PlanNext \/ Stops)
Clearing ==
  /\ focus = "clearance"
  /\ ExitNext \/ Stops
  /\ UNCHANGED plan
  /\ \A h \in Officer : LET job == officer'[h] IN
       /\ job.op \in {"start", "finish"} => job.exit = x1
       /\ job.op = "start" => job.plan = NoPlan /\ Range(job.scopes) \subseteq {"access", "none"}
       /\ job.op = "item" => job.row.scope = "access" \/ job.row.status = "OPEN"
  /\ ByHand => /\ exit'[x1].clearance = [exit[x1].clearance EXCEPT !["access"] = "CLEARED"]
               /\ exit'[x1].status \in {"ACTIVE", "CANCELLED"}
Leaving ==
  /\ focus = "exits"
  /\ ExitNext \/ Stops
  /\ \A h \in Officer : LET job == officer'[h] IN
       /\ job.op = "start" => job.tasks \subseteq {tk1} /\ job.scopes = [i \in {ItemOf(job.exit)} |-> "access"]
       /\ job.op = "item" => /\ job.row.scope = "access" /\ job.item = ItemOf(job.row.exit)
                             /\ job.row.status \in {"OPEN", "CLEARED"}
  /\ ByHand => \A c \in ExitId : exit'[c] # exit[c] =>
       c = x1 /\ exit'[c].clearance = exit[c].clearance /\ exit'[c].status \in {"CANCELLED", "ACTIVE"}

Records ==
  \/ /\ Planning \/ Clearing \/ Leaving
     /\ UNCHANGED <<formVars, documentVars>>
  \/ focus = "forms" /\ FormsNext /\ UNCHANGED <<lifecycleVars, documentVars>>
  \/ focus = "documents" /\ DocumentsNext /\ UNCHANGED <<lifecycleVars, formVars>>

----------------------------------------------------------------------------
\* All are employed: by rehiring, also two records of one person.
StaffedInit ==
  /\ employee = [e \in Person |-> [status |-> "ACTIVE", deleted |-> FALSE, imported |-> FALSE,
                                   rolledBack |-> FALSE]]
  /\ position = [p \in PositionId |-> NoRecord]
  /\ placement = [a \in PlacementId |-> NoRecord]
  /\ today = 0

MCInit ==
  /\ focus \in {"delegations", "import", "sessions", "invitations", "placements", "hierarchy", "employment",
               "requisitions", "offers", "plans", "clearance", "exits", "forms", "documents"}
  /\ DelegationInit /\ ImportInit /\ SessionsInit /\ RecruitmentInit
  /\ LifecycleInit /\ FormsInit /\ DocumentsInit
  /\ IF focus \in {"placements", "hierarchy"} THEN StaffedInit ELSE StaffingInit
  /\ focus = "sessions" => \A u \in Account : account[u] = "ACTIVE"
  /\ focus \notin {"sessions", "invitations"} => account = [u \in Account |-> "ACTIVE"]

Delegating == focus = "delegations" /\ DelegationNext
Importing == focus = "import" /\ ImportNext

MCNext ==
  /\ UNCHANGED focus
  /\ \/ Delegating /\ UNCHANGED <<importVars, sessionVars, staffingVars, recruitmentVars, recordVars>>
     \/ Importing /\ UNCHANGED <<delegationVars, sessionVars, staffingVars, recruitmentVars, recordVars>>
     \/ /\ Credentials \/ Invitations
        /\ UNCHANGED <<delegationVars, importVars, staffingVars, recruitmentVars, recordVars>>
     \/ /\ Placing \/ Reporting \/ Employing
        /\ UNCHANGED <<delegationVars, importVars, sessionVars, recruitmentVars, recordVars>>
     \/ /\ Requisitions \/ Offers
        /\ UNCHANGED <<delegationVars, importVars, sessionVars, staffingVars, recordVars>>
     \/ Records /\ UNCHANGED <<delegationVars, importVars, sessionVars, staffingVars, recruitmentVars>>

\* ImportFairness, of behaviours with that focus.
ImportMoves(A) ==
  /\ focus = "import" /\ A
  /\ UNCHANGED <<focus, delegationVars, sessionVars, staffingVars, recruitmentVars, recordVars>>

MCFairness ==
  /\ \A w \in Worker : /\ WF_mcVars(ImportMoves(WorkerStep(w)))
                       /\ WF_mcVars(ImportMoves(WorkerRestarts(w)))
  /\ \A j \in ImportJob : WF_mcVars(ImportMoves(LockGoesStale(j)))

MCSpec == MCInit /\ [][MCNext]_mcVars /\ MCFairness
=============================================================================
