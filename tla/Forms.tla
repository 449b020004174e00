--------------------------------- MODULE Forms ---------------------------------
(***************************************************************************)
(* Forms, their assignments and the responses to them:                     *)
(* forms/forms.service.ts.                                                 *)
(*                                                                         *)
(* The questions of a form are an edition: updateForm deletes them all and   *)
(* writes new ones.  A handler is a transaction in two steps, what it reads  *)
(* and checks and what it writes; broken off, it leaves nothing.  What is    *)
(* asked and answered is left out, and so is EXPIRED, which no transaction   *)
(* commits: submitMyResponse writes it and then throws.                     *)
(***************************************************************************)
EXTENDS Integers, FiniteSets

CONSTANTS FormId, FormTarget,        \* targets: a pair of employee and user
          FormAssignmentId, ResponseId,
          MaxEdition,
          FormHandler, FormsTakeTurns,
          NoForm

ASSUME FormsAssumption == MaxEdition \in Nat \ {0} /\ FormsTakeTurns \in BOOLEAN

VARIABLES form,        \* Form rows with their questions
          assigned,    \* FormAssignment rows
          response,    \* FormResponse rows
          formHandler

formVars == <<form, assigned, response, formHandler>>

FormStatus == {"DRAFT", "PUBLISHED", "ARCHIVED"}
\* Edition 0 has no questions.  several: allowMultipleResponses; everSeveral,
\* whether it was ever set; closed: closesAt has passed.
FormRow == [status : FormStatus, edition : 0 .. MaxEdition, several : BOOLEAN,
            everSeveral : BOOLEAN, closed : BOOLEAN]
FormAssignmentRow == [form : FormId, target : FormTarget, status : {"ASSIGNED", "SUBMITTED"}]
ResponseRow == [assignment : FormAssignmentId, edition : 0 .. MaxEdition]

ASSUME NoFormIsNoRow == NoForm \notin FormRow \cup FormAssignmentRow \cup ResponseRow

NoJob == [op |-> "none"]

FormsTypeOK ==
  /\ form \in [FormId -> FormRow \cup {NoForm}]
  /\ assigned \in [FormAssignmentId -> FormAssignmentRow \cup {NoForm}]
  /\ response \in [ResponseId -> ResponseRow \cup {NoForm}]
  /\ \A a \in FormAssignmentId : assigned[a] # NoForm => form[assigned[a].form] # NoForm
  /\ \A r \in ResponseId : response[r] # NoForm => assigned[response[r].assignment] # NoForm

FormsInit ==
  /\ form = [f \in FormId |-> NoForm]
  /\ assigned = [a \in FormAssignmentId |-> NoForm]
  /\ response = [r \in ResponseId |-> NoForm]
  /\ formHandler = [h \in FormHandler |-> NoJob]

FormsTurn == FormsTakeTurns => \A h \in FormHandler : formHandler[h] = NoJob

ResponsesTo(a) == {r \in ResponseId : response[r] # NoForm /\ response[r].assignment = a}
AssignmentsOf(f) == {a \in FormAssignmentId : assigned[a] # NoForm /\ assigned[a].form = f}

----------------------------------------------------------------------------
\* One statement: createForm, archiveForm; and time, which closes a form.

CreateForm(f, status, edition, several) ==
  /\ form[f] = NoForm /\ edition \in {0, 1}
  /\ form' = [form EXCEPT ![f] = [status |-> status, edition |-> edition, several |-> several,
                                  everSeveral |-> several, closed |-> FALSE]]
  /\ UNCHANGED <<assigned, response, formHandler>>

ArchiveForm(f) ==
  /\ form[f] # NoForm
  /\ form' = [form EXCEPT ![f].status = "ARCHIVED"]
  /\ UNCHANGED <<assigned, response, formHandler>>

FormCloses(f) ==
  /\ form[f] # NoForm /\ ~form[f].closed
  /\ form' = [form EXCEPT ![f].closed = TRUE]
  /\ UNCHANGED <<assigned, response, formHandler>>

----------------------------------------------------------------------------
\* Handlers begin.

Takes(h, job) ==
  /\ formHandler[h] = NoJob
  /\ formHandler' = [formHandler EXCEPT ![h] = job]
  /\ UNCHANGED <<form, assigned, response>>

\* updateForm: a patch of the form, and the edition of its new questions if it
\* brings any; with a response they are refused.
UpdateForm(h, f, patch, questions) ==
  /\ form[f] # NoForm
  /\ questions # "keep" => \A a \in AssignmentsOf(f) : ResponsesTo(a) = {}
  /\ Takes(h, [op |-> "update", form |-> f, patch |-> patch, questions |-> questions])

PublishForm(h, f) ==
  /\ form[f] # NoForm /\ form[f].edition # 0
  /\ Takes(h, [op |-> "publish", form |-> f])

Open(f) == form[f] # NoForm /\ form[f].status = "PUBLISHED" /\ ~form[f].closed

\* assignForm, for one of its targets: an assignment that the target has
\* already is sent again.
AssignForm(h, f, target) ==
  /\ Open(f)
  /\ LET found == {a \in AssignmentsOf(f) : assigned[a].target = target} IN
     \E a \in IF found = {} THEN {x \in FormAssignmentId : assigned[x] = NoForm} ELSE found :
       Takes(h, [op |-> "assign", id |-> a,
                 row |-> [form |-> f, target |-> target,
                          status |-> IF found = {} THEN "ASSIGNED" ELSE assigned[a].status]])

\* submitMyResponse, with answers to the questions that it reads.
SubmitMyResponse(h, a, r) ==
  /\ assigned[a] # NoForm /\ Open(assigned[a].form) /\ response[r] = NoForm
  /\ assigned[a].status = "SUBMITTED" => form[assigned[a].form].several
  /\ Takes(h, [op |-> "submit", id |-> r,
               row |-> [assignment |-> a, edition |-> form[assigned[a].form].edition]])

----------------------------------------------------------------------------
\* Handlers write, and commit.

FormHandlerEnds(h, op) == formHandler[h].op = op /\ formHandler' = [formHandler EXCEPT ![h] = NoJob]

NextEdition(f, questions) ==
  CASE questions = "keep" -> form[f].edition
    [] questions = "none" -> 0
    [] questions = "new"  -> form[f].edition + 1

CommitUpdate(h) ==
  /\ FormHandlerEnds(h, "update")
  /\ LET f == formHandler[h].form
         patch == formHandler[h].patch IN
     /\ NextEdition(f, formHandler[h].questions) <= MaxEdition
     /\ form' = [form EXCEPT ![f] =
          [status |-> patch.status, several |-> patch.several,
           closed |-> patch.closed, everSeveral |-> @.everSeveral \/ patch.several,
           edition |-> NextEdition(f, formHandler[h].questions)]]
  /\ UNCHANGED <<assigned, response>>

CommitPublish(h) ==
  /\ FormHandlerEnds(h, "publish")
  /\ form' = [form EXCEPT ![formHandler[h].form].status = "PUBLISHED"]
  /\ UNCHANGED <<assigned, response>>

\* Mutant: what is sent again is to be answered again.
CommitAssignAfresh(h) ==
  /\ FormHandlerEnds(h, "assign")
  /\ assigned' = [assigned EXCEPT ![formHandler[h].id] = [formHandler[h].row EXCEPT !.status = "ASSIGNED"]]
  /\ UNCHANGED <<form, response>>

CommitAssign(h) ==
  /\ FormHandlerEnds(h, "assign")
  /\ assigned' = [assigned EXCEPT ![formHandler[h].id] = formHandler[h].row]
  /\ UNCHANGED <<form, response>>

CommitSubmit(h) ==
  /\ FormHandlerEnds(h, "submit")
  /\ LET row == formHandler[h].row IN
     /\ response' = [response EXCEPT ![formHandler[h].id] = row]
     /\ assigned' = [assigned EXCEPT ![row.assignment].status = "SUBMITTED"]
  /\ UNCHANGED form

FormHandlerStops(h) ==
  /\ formHandler[h] # NoJob
  /\ formHandler' = [formHandler EXCEPT ![h] = NoJob]
  /\ UNCHANGED <<form, assigned, response>>

----------------------------------------------------------------------------
Patches == [status : FormStatus, several : BOOLEAN, closed : BOOLEAN]

FormsNext ==
  \/ \E f \in FormId : FormCloses(f)
  \/ /\ FormsTurn
     /\ \/ \E f \in FormId :
             \/ \E status \in FormStatus, edition \in {0, 1}, several \in BOOLEAN :
                  CreateForm(f, status, edition, several)
             \/ ArchiveForm(f)
        \/ \E h \in FormHandler :
             \/ \E f \in FormId :
                  \/ \E patch \in Patches, questions \in {"keep", "none", "new"} :
                       UpdateForm(h, f, patch, questions)
                  \/ PublishForm(h, f)
                  \/ \E target \in FormTarget : AssignForm(h, f, target)
             \/ \E a \in FormAssignmentId, r \in ResponseId : SubmitMyResponse(h, a, r)
  \/ \E h \in FormHandler : \/ CommitUpdate(h) \/ CommitPublish(h)
                            \/ CommitAssign(h) \/ CommitSubmit(h) \/ FormHandlerStops(h)

FormsSpec == FormsInit /\ [][FormsNext]_formVars

----------------------------------------------------------------------------
\* Properties, of handlers that take turns.

\* updateForm, assignForm and submitMyResponse keep a form and what came in on
\* it together: every response answers the questions the form has now, a target
\* has one assignment of a form, and one that never allowed several responses
\* has at most one response to an assignment, however often it was sent again.
ResponsesFitForm ==
  FormsTakeTurns =>
    /\ \A r \in ResponseId : response[r] # NoForm =>
         response[r].edition = form[assigned[response[r].assignment].form].edition
    /\ \A f \in FormId : \A a, b \in AssignmentsOf(f) :
         assigned[a].target = assigned[b].target => a = b
    /\ \A f \in FormId : \A a \in AssignmentsOf(f) :
         /\ ~form[f].everSeveral => Cardinality(ResponsesTo(a)) <= 1
         /\ (ResponsesTo(a) # {}) = (assigned[a].status = "SUBMITTED")
=============================================================================
