---------------------------- MODULE EmploymentRecords ----------------------------
(***************************************************************************)
(* Employment terms, compensation changes, reporting relationships and       *)
(* leadership designations of one employee, employees/employees.service.ts.  *)
(*                                                                         *)
(* A handler is one action, except for the updates of terms and             *)
(* relationships, which write back what they read.  Pay is a value, and a day *)
(* a number; days do not pass, since nothing but requests names them.        *)
(***************************************************************************)
EXTENDS Naturals, FiniteSets

CONSTANTS TermId, ChangeId, Pay, LastRecordDay,
          RelationId, DesignationId, Leader, Oneself,
          RecordClerk,      \* updates of terms and relationships
          RelationsInTurns, \* no two updates of a relationship overlap
          NoTerm, NoChange, NoRelation, NoDesignation, NoUpdate

ASSUME EmploymentRecordsAssumption ==
  /\ LastRecordDay \in Nat /\ RelationsInTurns \in BOOLEAN
  /\ TermId \cap RelationId = {}

VARIABLES term, change,
          relation, designation,
          able,      \* leaders who are ACTIVE or on PROBATION
          update,    \* updates between their read and their write
          validated  \* history: the pairs validateReportingRelationship let pass

termVars == <<term, change>>
relationVars == <<relation, designation, able, validated>>
employmentRecordVars == <<termVars, relationVars, update>>

RecordDay == 0..LastRecordDay
OpenEnd == LastRecordDay + 1
End == RecordDay \cup {OpenEnd}

EmploymentTermStatus == {"DRAFT", "PENDING_REVIEW", "ACTIVE", "SUPERSEDED", "ENDED", "CANCELLED", "ARCHIVED"}
CompensationChangeStatus == {"DRAFT", "PENDING_APPROVAL", "APPROVED", "REJECTED", "EFFECTIVE", "SUPERSEDED", "CANCELLED"}
ReportingRelationshipStatus == {"ACTIVE", "ENDED", "CANCELLED", "ARCHIVED"}
LeadershipRole == {"MANAGER", "SUPERVISOR", "UNIT_HEAD", "DEPARTMENT_HEAD", "PROJECT_LEAD",
                   "HR_BUSINESS_PARTNER", "APPROVER"}

\* reportingLeadershipRoles: any leader will do for the other types.
PooledRoles ==
  [MANAGER |-> {"MANAGER", "DEPARTMENT_HEAD"}, SUPERVISOR |-> {"SUPERVISOR", "MANAGER"},
   UNIT_HEAD |-> {"UNIT_HEAD", "DEPARTMENT_HEAD"}, PROJECT_LEAD |-> {"PROJECT_LEAD"},
   HR_BUSINESS_PARTNER |-> {"HR_BUSINESS_PARTNER"}, APPROVER |-> {"APPROVER", "MANAGER"}]
RelationType == DOMAIN PooledRoles \cup {"DOTTED_LINE", "MENTOR", "OTHER"}
Exclusive == {"MANAGER", "SUPERVISOR", "UNIT_HEAD", "HR_BUSINESS_PARTNER"}

TermRow == [status : EmploymentTermStatus, from : RecordDay, to : End, pay : Pay]
ChangeRow == [status : CompensationChangeStatus, term : TermId \cup {NoTerm}, previous : Pay \cup {NoTerm}, proposed : Pay]
RelationRow == [type : RelationType, leader : Leader, status : ReportingRelationshipStatus, from : RecordDay, to : End]
DesignationRow == [leader : Leader, role : LeadershipRole, active : BOOLEAN, from : RecordDay, to : End]

ASSUME NoRelationIsNoRow == NoRelation \notin RelationRow

EmploymentRecordsTypeOK ==
  /\ term \in [TermId -> TermRow \cup {NoTerm}]
  /\ change \in [ChangeId -> ChangeRow \cup {NoChange}]
  /\ relation \in [RelationId -> RelationRow \cup {NoRelation}]
  /\ designation \in [DesignationId -> DesignationRow \cup {NoDesignation}]
  /\ able \subseteq Leader
  /\ validated \subseteq RelationType \X Leader

EmploymentRecordsInit ==
  /\ term = [t \in TermId |-> NoTerm] /\ change = [c \in ChangeId |-> NoChange]
  /\ relation = [r \in RelationId |-> NoRelation]
  /\ designation = [d \in DesignationId |-> NoDesignation]
  /\ able = Leader /\ validated = {}
  /\ update = [k \in RecordClerk |-> NoUpdate]

\* assertEffectiveWindow.
EffectiveWindow(from, to) == from < to

----------------------------------------------------------------------------
\* Terms.  An active term without end supersedes the one before, whose window
\* ends where the new one starts, also if that is before its own start.

CreateTerm(t, row) ==
  /\ term[t] = NoTerm /\ EffectiveWindow(row.from, row.to)
  /\ term' = [o \in TermId |->
       IF o = t THEN row
       ELSE IF row.status = "ACTIVE" /\ row.to = OpenEnd /\ term[o] # NoTerm
                 /\ term[o].status = "ACTIVE" /\ term[o].to = OpenEnd
       THEN [term[o] EXCEPT !.status = "SUPERSEDED", !.to = row.from]
       ELSE term[o]]
  /\ UNCHANGED <<change, relationVars, update>>

\* The window is validated, and written, as the request or the row has it.
UpdateTermRead(k, t, from, to) ==
  /\ update[k] = NoUpdate /\ term[t] # NoTerm
  /\ EffectiveWindow(from, to)
  /\ update' = [update EXCEPT ![k] = [record |-> t, from |-> from, to |-> to]]
  /\ UNCHANGED <<termVars, relationVars>>

UpdateTermCommit(k, status, pay) ==
  /\ update[k] # NoUpdate /\ update[k].record \in TermId
  /\ term' = [term EXCEPT ![update[k].record] =
       [status |-> status, from |-> update[k].from, to |-> update[k].to, pay |-> pay]]
  /\ update' = [update EXCEPT ![k] = NoUpdate]
  /\ UNCHANGED <<change, relationVars>>

----------------------------------------------------------------------------
\* Compensation changes.

\* currentCompensationState: of the term named, or of the active one that
\* started last.
InForce == {t \in TermId : term[t] # NoTerm /\ term[t].status = "ACTIVE"}
Current(t) ==
  IF t # NoTerm THEN {term[t].pay}
  ELSE IF InForce = {} THEN {NoTerm}
  ELSE {term[o].pay : o \in {u \in InForce : \A v \in InForce : term[v].from <= term[u].from}}

CreateCompensationChange(c, t, status, pay) ==
  /\ change[c] = NoChange
  /\ t # NoTerm => term[t] # NoTerm
  /\ \E previous \in Current(t) :
       change' = [change EXCEPT ![c] = [status |-> status, term |-> t, previous |-> previous, proposed |-> pay]]
  /\ UNCHANGED <<term, relationVars, update>>

\* Approving asks for no status, so that a change may be applied again.
ApproveCompensationChange(c) ==
  /\ change[c] # NoChange
  /\ change' = [change EXCEPT ![c].status = "APPROVED"]
  /\ UNCHANGED <<term, relationVars, update>>

\* applyCompensationProposalToTerm, for the term that was named.
ApplyCompensationChange(c) ==
  /\ change[c] # NoChange /\ change[c].status = "APPROVED"
  /\ change' = [change EXCEPT ![c].status = "EFFECTIVE"]
  /\ term' = IF change[c].term = NoTerm THEN term ELSE [term EXCEPT ![change[c].term].pay = change[c].proposed]
  /\ UNCHANGED <<relationVars, update>>

----------------------------------------------------------------------------
\* Leaders.

StatusOfLeader(l) ==
  /\ able' = IF l \in able THEN able \ {l} ELSE able \cup {l}
  /\ UNCHANGED <<termVars, relation, designation, validated, update>>

\* validateLeadershipDesignationInput; without dates always in force.
CreateDesignation(d, row) ==
  /\ designation[d] = NoDesignation /\ row.leader \in able /\ row.from < row.to
  /\ designation' = [designation EXCEPT ![d] = row]
  /\ UNCHANGED <<termVars, relation, able, validated, update>>

UpdateDesignation(d, from, to, active) ==
  /\ designation[d] # NoDesignation /\ designation[d].leader \in able /\ from < to
  /\ designation' = [designation EXCEPT ![d].from = from, ![d].to = to, ![d].active = active]
  /\ UNCHANGED <<termVars, relation, able, validated, update>>

----------------------------------------------------------------------------
\* Reporting relationships.

Pool(role, day) ==
  {l \in Leader : \E d \in DesignationId :
     /\ designation[d] # NoDesignation /\ designation[d].leader = l /\ designation[d].role = role
     /\ designation[d].active /\ designation[d].from <= day /\ day <= designation[d].to}

\* validateReportingRelationship.
ValidRelation(type, leader, from) ==
  /\ leader # Oneself /\ leader \in able
  /\ type \in DOMAIN PooledRoles => \E role \in PooledRoles[type] : leader \in Pool(role, from)

CreateRelation(r, row) ==
  /\ relation[r] = NoRelation /\ EffectiveWindow(row.from, row.to)
  /\ ValidRelation(row.type, row.leader, row.from)
  /\ validated' = validated \cup {<<row.type, row.leader>>}
  /\ relation' = [o \in RelationId |->
       IF o = r THEN row
       ELSE IF row.type \in Exclusive /\ row.status = "ACTIVE" /\ relation[o] # NoRelation
                 /\ relation[o].type = row.type /\ relation[o].status = "ACTIVE" /\ relation[o].to = OpenEnd
       THEN [relation[o] EXCEPT !.status = "ENDED", !.to = row.from]
       ELSE relation[o]]
  /\ UNCHANGED <<termVars, designation, able, update>>

\* What is validated: the request, and the row where the request says nothing.
Merged(r, says, type, leader) ==
  <<IF "type" \in says THEN type ELSE relation[r].type, IF "leader" \in says THEN leader ELSE relation[r].leader>>

\* An update is validated as if the relationship was new, also to end it.
UpdateRelationRead(k, r, says, type, leader, from, to) ==
  /\ update[k] = NoUpdate /\ relation[r] # NoRelation
  /\ RelationsInTurns => \A o \in RecordClerk : update[o] # NoUpdate => update[o].record # r
  /\ EffectiveWindow(from, to)
  /\ LET pair == Merged(r, says, type, leader) IN
     /\ ValidRelation(pair[1], pair[2], from)
     /\ validated' = validated \cup {pair}
  /\ update' = [update EXCEPT ![k] =
       [record |-> r, says |-> says, type |-> type, leader |-> leader, from |-> from, to |-> to]]
  /\ UNCHANGED <<termVars, relation, designation, able>>

\* Only what the request says is written, and the window.
UpdateRelationCommit(k, status) ==
  /\ update[k] # NoUpdate /\ update[k].record \in RelationId
  /\ LET u == update[k] IN
     relation' = [relation EXCEPT ![u.record] =
       [type |-> IF "type" \in u.says THEN u.type ELSE @.type,
        leader |-> IF "leader" \in u.says THEN u.leader ELSE @.leader,
        status |-> status, from |-> u.from, to |-> u.to]]
  /\ update' = [update EXCEPT ![k] = NoUpdate]
  /\ UNCHANGED <<termVars, designation, able, validated>>

UpdateStops(k) ==
  /\ update[k] # NoUpdate /\ update' = [update EXCEPT ![k] = NoUpdate]
  /\ UNCHANGED <<termVars, relationVars>>

----------------------------------------------------------------------------
TermNext ==
  \/ \E t \in TermId :
       \/ \E row \in TermRow : CreateTerm(t, row)
       \/ \E k \in RecordClerk, from \in RecordDay, to \in End : UpdateTermRead(k, t, from, to)
  \/ \E k \in RecordClerk, status \in EmploymentTermStatus, pay \in Pay : UpdateTermCommit(k, status, pay)
  \/ \E c \in ChangeId :
       \/ \E t \in TermId \cup {NoTerm}, status \in CompensationChangeStatus, pay \in Pay :
            CreateCompensationChange(c, t, status, pay)
       \/ ApproveCompensationChange(c) \/ ApplyCompensationChange(c)

RelationNext ==
  \/ \E l \in Leader : StatusOfLeader(l)
  \/ \E d \in DesignationId :
       \/ \E row \in DesignationRow : CreateDesignation(d, row)
       \/ \E from \in RecordDay, to \in End, active \in BOOLEAN : UpdateDesignation(d, from, to, active)
  \/ \E r \in RelationId :
       \/ \E row \in RelationRow : CreateRelation(r, row)
       \/ \E k \in RecordClerk, says \in SUBSET {"type", "leader"}, type \in RelationType, leader \in Leader,
             from \in RecordDay, to \in End : UpdateRelationRead(k, r, says, type, leader, from, to)
  \/ \E k \in RecordClerk, status \in ReportingRelationshipStatus : UpdateRelationCommit(k, status)

EmploymentRecordsNext == TermNext \/ RelationNext \/ \E k \in RecordClerk : UpdateStops(k)

EmploymentRecordsSpec == EmploymentRecordsInit /\ [][EmploymentRecordsNext]_employmentRecordVars

----------------------------------------------------------------------------
\* Properties.

\* "must be selected from the matching leadership pool": type and employee of a
\* relationship have passed validateReportingRelationship together, although an
\* update names one of them, or none, and is written after it was validated.
RelationsFit ==
  RelationsInTurns => \A r \in RelationId :
    relation[r] # NoRelation => <<relation[r].type, relation[r].leader>> \in validated
=============================================================================
