---------------------------- MODULE ExtendedProfile ----------------------------
(***************************************************************************)
(* The records an employee submits and HR reviews: references and their      *)
(* documents, payout accounts, statutory identifiers, work eligibility,      *)
(* dependents and background checks of employees/employees.service.ts.       *)
(*                                                                         *)
(* updateMyExtendedProfile and updateEmployeeExtendedProfile are one          *)
(* transaction each and one action for each record they write.  Between what  *)
(* a reviewer reads and the decision that reviewer sends, others move.  Of    *)
(* the content only matters whether it is what was read.                     *)
(***************************************************************************)
EXTENDS FiniteSets

CONSTANTS RecordId, Reviewer,
          ReviewersTakeTurns, \* while one has read a record, no other writes it
          NoRecordKept, NoReview

ASSUME ProfileAssumption == ReviewersTakeTurns \in BOOLEAN

VARIABLES profile, \* records of one employee
          unread,  \* records with content that no reviewer has read or written
          review   \* what a reviewer has read and not decided

profileVars == <<profile, unread, review>>

ReferenceStatus == {"PENDING", "CONTACTED", "VERIFIED", "REJECTED", "ARCHIVED"}
PayoutStatus == {"DRAFT", "PENDING_VERIFICATION", "VERIFIED", "REJECTED", "DISABLED", "ARCHIVED"}
StatutoryStatus == {"DRAFT", "PENDING_VERIFICATION", "VERIFIED", "REJECTED", "EXPIRED", "ARCHIVED"}
EligibilityStatus == {"NOT_REVIEWED", "PENDING_REVIEW", "AUTHORIZED", "EXPIRING_SOON", "EXPIRED", "REJECTED"}
CheckStatus == {"NOT_STARTED", "REQUESTED", "IN_PROGRESS", "CLEAR", "REVIEW_REQUIRED",
                "ADVERSE_ACTION", "CANCELLED", "EXPIRED"}

StatusOf == [reference |-> ReferenceStatus, payout |-> PayoutStatus, statutory |-> StatutoryStatus,
             eligibility |-> EligibilityStatus, check |-> CheckStatus, dependent |-> {"NONE"}]
Kind == DOMAIN StatusOf

\* What a record is created with when no status is asked for, and what
\* self-service always writes.
Submitted == [reference |-> "PENDING", payout |-> "PENDING_VERIFICATION", statutory |-> "PENDING_VERIFICATION",
              eligibility |-> "PENDING_REVIEW", check |-> "REQUESTED", dependent |-> "NONE"]

\* Statuses written together with verifiedAt and verifiedById, or adjudicatedAt.
Attests == [reference |-> {"VERIFIED"}, payout |-> {"VERIFIED"}, statutory |-> {"VERIFIED"},
            eligibility |-> {"AUTHORIZED", "EXPIRING_SOON"},
            check |-> {"CLEAR", "REVIEW_REQUIRED", "ADVERSE_ACTION"}, dependent |-> {}]

\* What a removed record is left with.
Removed == [reference |-> "ARCHIVED", payout |-> "ARCHIVED", statutory |-> "ARCHIVED",
            check |-> "CANCELLED", dependent |-> "NONE"]

\* assertSelfService...Editable: what the employee may write again.
Reopened == [reference |-> {"REJECTED"}, payout |-> {"REJECTED", "DRAFT"}, statutory |-> {"REJECTED", "DRAFT"},
             eligibility |-> {"REJECTED", "NOT_REVIEWED"}, check |-> {}, dependent |-> {"NONE"}]

\* verified: verifiedAt, or adjudicatedAt, is set.
ProfileRow == [kind : Kind, status : UNION {StatusOf[k] : k \in Kind}, verified : BOOLEAN, deleted : BOOLEAN]

ASSUME NoRecordKeptIsNoRow == NoRecordKept \notin ProfileRow

ProfileTypeOK ==
  /\ profile \in [RecordId -> ProfileRow \cup {NoRecordKept}]
  /\ \A q \in RecordId : profile[q] # NoRecordKept => profile[q].status \in StatusOf[profile[q].kind]
  /\ unread \subseteq RecordId
  /\ review \in [Reviewer -> [record : RecordId, current : BOOLEAN] \cup {NoReview}]

ProfileInit ==
  /\ profile = [q \in RecordId |-> NoRecordKept]
  /\ unread = {}
  /\ review = [h \in Reviewer |-> NoReview]

\* assertEmployee...Exists.
Kept(q) == profile[q] # NoRecordKept /\ ~profile[q].deleted

Row(kind, status) == [kind |-> kind, status |-> status, verified |-> status \in Attests[kind], deleted |-> FALSE]

\* An employee has one eligibility record, for which the upsert looks.
Fresh(q, kind) ==
  /\ profile[q] = NoRecordKept
  /\ kind = "eligibility" => \A o \in RecordId : profile[o] # NoRecordKept => profile[o].kind # kind

\* Whoever has read the record before has not read what is there now.
Rewritten(q) == review' = [h \in Reviewer |->
  IF review[h] # NoReview /\ review[h].record = q THEN [review[h] EXCEPT !.current = FALSE] ELSE review[h]]

----------------------------------------------------------------------------
\* Self-service, which removes nothing and keeps no background checks.

SubmitRecord(q, kind) ==
  /\ kind # "check" /\ Fresh(q, kind)
  /\ profile' = [profile EXCEPT ![q] = Row(kind, Submitted[kind])]
  /\ unread' = unread \cup {q}
  /\ Rewritten(q)

CorrectRecord(q) ==
  /\ Kept(q)
  /\ LET kind == profile[q].kind IN
     /\ profile[q].status \in Reopened[kind]
     /\ profile' = [profile EXCEPT ![q] = Row(kind, Submitted[kind])]
  /\ unread' = unread \cup {q}
  /\ Rewritten(q)

----------------------------------------------------------------------------
\* HR.

\* A status that is left out stays, and verifiedAt with it.
WithStatus(row, status) ==
  [row EXCEPT !.status = status, !.verified = status \in Attests[row.kind]]

Undisturbed(q) ==
  ReviewersTakeTurns => \A h \in Reviewer : review[h] # NoReview => review[h].record # q

\* Content that HR writes has been seen by HR.
RecordByHR(q, kind, status) ==
  /\ status \in StatusOf[kind] /\ Fresh(q, kind)
  /\ profile' = [profile EXCEPT ![q] = Row(kind, status)]
  /\ unread' = unread \ {q}
  /\ Rewritten(q)

RewriteByHR(q, status) ==
  /\ Kept(q) /\ Undisturbed(q) /\ status \in StatusOf[profile[q].kind]
  /\ profile' = [profile EXCEPT ![q] = WithStatus(@, status)]
  /\ unread' = unread \ {q}
  /\ Rewritten(q)

\* A reviewer reads what was submitted, and decides on what was read.
ReadSubmitted(h, q) ==
  /\ review[h] = NoReview /\ Undisturbed(q)
  /\ Kept(q) /\ profile[q].status = Submitted[profile[q].kind] /\ profile[q].kind # "dependent"
  /\ review' = [review EXCEPT ![h] = [record |-> q, current |-> TRUE]]
  /\ UNCHANGED <<profile, unread>>

DecideRecord(h, status) ==
  /\ review[h] # NoReview
  /\ LET q == review[h].record IN
     /\ Kept(q) /\ status \in StatusOf[profile[q].kind]
     /\ profile' = [profile EXCEPT ![q] = WithStatus(@, status)]
     /\ unread' = IF review[h].current THEN unread \ {q} ELSE unread
  /\ review' = [review EXCEPT ![h] = NoReview]

PutAside(h) ==
  /\ review[h] # NoReview /\ review' = [review EXCEPT ![h] = NoReview]
  /\ UNCHANGED <<profile, unread>>

\* softDelete..., all or none; the eligibility record cannot be removed.
RemoveRecords(Q) ==
  /\ Q # {} /\ \A q \in Q : Kept(q) /\ profile[q].kind # "eligibility"
  /\ profile' = [q \in RecordId |->
       IF q \in Q THEN [profile[q] EXCEPT !.deleted = TRUE, !.status = Removed[profile[q].kind]] ELSE profile[q]]
  /\ UNCHANGED <<unread, review>>

----------------------------------------------------------------------------
ProfileNext ==
  \/ \E q \in RecordId :
       \/ \E kind \in Kind : \/ SubmitRecord(q, kind)
                             \/ \E status \in StatusOf[kind] : RecordByHR(q, kind, status)
       \/ CorrectRecord(q)
       \/ profile[q] # NoRecordKept /\ \E status \in StatusOf[profile[q].kind] : RewriteByHR(q, status)
  \/ \E Q \in SUBSET RecordId : RemoveRecords(Q)
  \/ \E h \in Reviewer :
       \/ \E q \in RecordId : ReadSubmitted(h, q)
       \/ review[h] # NoReview /\ profile[review[h].record] # NoRecordKept
            /\ \E status \in StatusOf[profile[review[h].record].kind] : DecideRecord(h, status)
       \/ PutAside(h)

ProfileSpec == ProfileInit /\ [][ProfileNext]_profileVars

----------------------------------------------------------------------------
\* Properties.

\* The assertSelfService...Editable guards against the requests of a reviewer:
\* nobody is on record as having verified or adjudicated content that no
\* reviewer has seen, although the employee may write between what is read and
\* what is decided, as long as one reviewer at a time works on a record.
AttestedAsSeen ==
  ReviewersTakeTurns => \A q \in RecordId :
    profile[q] # NoRecordKept /\ profile[q].verified => q \notin unread
=============================================================================
