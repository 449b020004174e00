------------------------------ MODULE Recruitment ------------------------------
(***************************************************************************)
(* Requisitions, postings, applications and offers:                        *)
(* recruitment/recruitment.service.ts.                                     *)
(*                                                                         *)
(* Requisitions and offers, papers below, go through the approval engine    *)
(* alike: a handler writes the paper, calls the engine and writes the paper  *)
(* again, with no transaction around.  It may break off anywhere, and the    *)
(* engine is also reached at its own endpoints.  The engine is the one of    *)
(* ApprovalLifecycle whose decisions stand.  Stages, interviews, feedback   *)
(* and what papers say are left out.                                        *)
(***************************************************************************)
EXTENDS Integers, FiniteSets

CONSTANTS Requisition, Offer, Candidate,
          RequestId,           \* approval requests
          Recruiter,           \* handlers of the service
          RecruitersTakeTurns,
          NoRequest, NoPaper

ASSUME RecruitmentAssumption ==
  /\ NoRequest \notin RequestId
  /\ Requisition \cap Offer = {}

VARIABLES paper,       \* status, approvalRequestId and acceptedAt of a paper
          applicant,   \* the application of an offer: candidate and requisition
          posting,     \* status of the RecruitmentJobPosting of a requisition
          application, \* per candidate and requisition: "NONE", "OPEN" or "HIRED"
          candidate,   \* per candidate: "ACTIVE" or "HIRED"
          request,     \* the approval engine
          direct,      \* papers whose status was set without the engine
          recruiter    \* what a handler is about to do

recruitmentVars ==
  <<paper, applicant, posting, application, candidate, request, direct, recruiter>>

Paper == Requisition \cup Offer
RequisitionStatus ==
  {"DRAFT", "SUBMITTED", "APPROVED", "OPEN", "ON_HOLD", "CLOSED", "CANCELLED", "REJECTED"}
OfferStatus ==
  {"DRAFT", "SUBMITTED", "APPROVED", "EXTENDED", "ACCEPTED", "DECLINED", "REJECTED", "WITHDRAWN"}
PostingStatus == {"NONE", "DRAFT", "PUBLISHED", "PAUSED", "CLOSED", "ARCHIVED"}
StatusOf(x) == IF x \in Requisition THEN RequisitionStatus ELSE OfferStatus

AtRest == [op |-> "rest"]

RecruitmentTypeOK ==
  /\ \A x \in Paper : /\ paper[x].status \in StatusOf(x) \cup {"NONE"}
                      /\ paper[x].request \in RequestId \cup {NoRequest}
                      /\ paper[x].accepted \in BOOLEAN
  /\ posting \in [Requisition -> PostingStatus]
  /\ application \in [Candidate \X Requisition -> {"NONE", "OPEN", "HIRED"}]
  /\ request \in [RequestId -> {"NONE", "PENDING", "APPROVED", "REJECTED", "ENDED"}]
  /\ direct \subseteq Paper

RecruitmentInit ==
  /\ paper = [x \in Paper |-> [status |-> "NONE", request |-> NoRequest, accepted |-> FALSE]]
  /\ applicant = [o \in Offer |-> NoPaper]
  /\ posting = [r \in Requisition |-> "NONE"]
  /\ application = [a \in Candidate \X Requisition |-> "NONE"]
  /\ candidate = [c \in Candidate |-> "ACTIVE"]
  /\ request = [q \in RequestId |-> "NONE"]
  /\ direct = {}
  /\ recruiter = [h \in Recruiter |-> AtRest]

RecruiterTurn == RecruitersTakeTurns => \A h \in Recruiter : recruiter[h] = AtRest
GoesOn(h, step) == recruiter' = [recruiter EXCEPT ![h] = step]
Does(h, step) == recruiter[h].op = step
Sets(x, status) == paper' = [paper EXCEPT ![x].status = status]

----------------------------------------------------------------------------
\* Papers are created, and edited, with any status.

CreatePaper(x, status) ==
  /\ RecruiterTurn /\ paper[x].status = "NONE" /\ status \in StatusOf(x)
  /\ Sets(x, status)
  /\ direct' = IF status = "DRAFT" THEN direct ELSE direct \cup {x}

CreateRequisition(r, status) ==
  /\ CreatePaper(r, status)
  /\ UNCHANGED <<applicant, posting, application, candidate, request, recruiter>>

CreateOffer(o, a, status) ==
  /\ application[a] # "NONE"
  /\ CreatePaper(o, status)
  /\ applicant' = [applicant EXCEPT ![o] = a]
  /\ UNCHANGED <<posting, application, candidate, request, recruiter>>

UpdatePaper(x, status) ==
  /\ RecruiterTurn /\ paper[x].status \notin {"NONE", status} /\ status \in StatusOf(x)
  /\ Sets(x, status)
  /\ direct' = direct \cup {x}
  /\ UNCHANGED <<applicant, posting, application, candidate, request, recruiter>>

----------------------------------------------------------------------------
\* A handler reads the paper and asks for its status; what it writes later
\* goes by id.

Begins(h, x, from, step) ==
  /\ RecruiterTurn /\ recruiter[h] = AtRest
  /\ paper[x].status \in from
  /\ GoesOn(h, step)
  /\ UNCHANGED <<paper, applicant, posting, application, candidate, request, direct>>

Writes(x, status) == [op |-> "write", id |-> x, status |-> status]
\* The engine decides first when the paper has a request.
Decides(x, status) ==
  IF paper[x].request = NoRequest THEN Writes(x, status)
  ELSE [op |-> "decide", id |-> x, request |-> paper[x].request, status |-> status]

SubmitRequisition(h, r) == Begins(h, r, {"DRAFT", "REJECTED"}, [op |-> "mark", id |-> r])
ApproveRequisition(h, r) == Begins(h, r, RequisitionStatus, Decides(r, "APPROVED"))
RejectRequisition(h, r) == Begins(h, r, RequisitionStatus, Decides(r, "REJECTED"))
OpenRequisition(h, r) == Begins(h, r, {"APPROVED", "OPEN"}, Writes(r, "OPEN"))
CloseRequisition(h, r) == Begins(h, r, RequisitionStatus, Writes(r, "CLOSED"))

SubmitOffer(h, o) == Begins(h, o, {"DRAFT", "REJECTED"}, [op |-> "mark", id |-> o])
ApproveOffer(h, o) == Begins(h, o, OfferStatus, Decides(o, "APPROVED"))
RejectOffer(h, o) == Begins(h, o, OfferStatus, Decides(o, "REJECTED"))
ExtendOffer(h, o) == Begins(h, o, {"APPROVED", "EXTENDED"}, Writes(o, "EXTENDED"))
AcceptOffer(h, o) == Begins(h, o, {"APPROVED", "EXTENDED"}, Writes(o, "ACCEPTED"))
DeclineOffer(h, o) == Begins(h, o, {"APPROVED", "EXTENDED"}, Writes(o, "DECLINED"))
WithdrawOffer(h, o) == Begins(h, o, OfferStatus \ {"ACCEPTED", "DECLINED"}, Writes(o, "WITHDRAWN"))

\* submitRequisition and submitOffer, three statements: SUBMITTED, then the
\* engine, then the link with what the engine answered.
MarkSubmitted(h) ==
  /\ Does(h, "mark")
  /\ Sets(recruiter[h].id, "SUBMITTED")
  /\ GoesOn(h, [op |-> "submit", id |-> recruiter[h].id])
  /\ UNCHANGED <<applicant, posting, application, candidate, request, direct>>

\* Without a workflow the engine approves at once.
EngineTakes(h, q, answer) ==
  /\ Does(h, "submit") /\ request[q] = "NONE" /\ answer \in {"PENDING", "APPROVED"}
  /\ request' = [request EXCEPT ![q] = answer]
  /\ GoesOn(h, [op |-> "link", id |-> recruiter[h].id, request |-> q,
                status |-> IF answer = "APPROVED" THEN "APPROVED" ELSE "SUBMITTED"])
  /\ UNCHANGED <<paper, applicant, posting, application, candidate, direct>>

LinkRequest(h) ==
  /\ Does(h, "link")
  /\ paper' = [paper EXCEPT ![recruiter[h].id].request = recruiter[h].request,
                            ![recruiter[h].id].status = recruiter[h].status]
  /\ GoesOn(h, AtRest)
  /\ UNCHANGED <<applicant, posting, application, candidate, request, direct>>

\* An approval may leave further steps.
EngineAnswers(status) == IF status = "APPROVED" THEN {"APPROVED", "PENDING"} ELSE {status}

\* Mutant: the answer is not looked at.
EngineDecidesPaperUnheard(h, answer) ==
  /\ Does(h, "decide")
  /\ LET q == recruiter[h].request IN
     /\ request[q] = "PENDING"
     /\ answer \in EngineAnswers(recruiter[h].status)
     /\ request' = [request EXCEPT ![q] = answer]
  /\ GoesOn(h, Writes(recruiter[h].id, recruiter[h].status))
  /\ UNCHANGED <<paper, applicant, posting, application, candidate, direct>>

\* The engine refuses a request that is not pending, and the handler ends
\* (RecruiterStops).
EngineDecidesPaper(h, answer) ==
  /\ Does(h, "decide")
  /\ LET q == recruiter[h].request IN
     /\ request[q] = "PENDING"
     /\ answer \in EngineAnswers(recruiter[h].status)
     /\ request' = [request EXCEPT ![q] = answer]
  /\ GoesOn(h, IF answer = recruiter[h].status THEN Writes(recruiter[h].id, answer) ELSE AtRest)
  /\ UNCHANGED <<paper, applicant, posting, application, candidate, direct>>

\* Without a request a decision is the service's own.
WriteStatus(h) ==
  /\ Does(h, "write")
  /\ LET x == recruiter[h].id
         status == recruiter[h].status IN
     /\ paper' = [paper EXCEPT ![x].status = status, ![x].accepted = @ \/ status = "ACCEPTED"]
     /\ direct' = IF status \in {"APPROVED", "REJECTED"} /\ paper[x].request = NoRequest
                  THEN direct \cup {x} ELSE direct
     /\ GoesOn(h, IF status = "ACCEPTED"
                  THEN [op |-> "hire", application |-> applicant[x], todo |-> {"application", "candidate"}]
                  ELSE AtRest)
  /\ UNCHANGED <<applicant, posting, application, candidate, request>>

\* acceptOffer and moveApplication: statements side by side, each of which
\* may fail.
Hires(h, what) ==
  /\ Does(h, "hire") /\ what \in recruiter[h].todo
  /\ LET a == recruiter[h].application
         left == recruiter[h].todo \ {what} IN
     /\ application' = IF what = "application" THEN [application EXCEPT ![a] = "HIRED"] ELSE application
     /\ candidate' = IF what = "candidate" THEN [candidate EXCEPT ![a[1]] = "HIRED"] ELSE candidate
     /\ GoesOn(h, IF left = {} THEN AtRest ELSE [recruiter[h] EXCEPT !.todo = left])
  /\ UNCHANGED <<paper, applicant, posting, request, direct>>

RecruiterStops(h) ==
  /\ recruiter[h] # AtRest /\ GoesOn(h, AtRest)
  /\ UNCHANGED <<paper, applicant, posting, application, candidate, request, direct>>

----------------------------------------------------------------------------
\* Postings, applications and candidates.

PublishRequisition(r, status) ==
  /\ RecruiterTurn /\ paper[r].status = "OPEN" /\ status \in PostingStatus \ {"NONE"}
  /\ posting' = [posting EXCEPT ![r] = status]
  /\ UNCHANGED <<paper, applicant, application, candidate, request, direct, recruiter>>

\* updateJobPosting; unpublishRequisition pauses.
UpdateJobPosting(r, status) ==
  /\ RecruiterTurn /\ posting[r] # "NONE" /\ status \in PostingStatus \ {"NONE"}
  /\ posting' = [posting EXCEPT ![r] = status]
  /\ UNCHANGED <<paper, applicant, application, candidate, request, direct, recruiter>>

\* An application is one per candidate and requisition, by a unique index.
Apply(c, r) ==
  /\ RecruiterTurn
  /\ \/ posting[r] = "PUBLISHED" /\ paper[r].status = "OPEN"   \* applyToPublicJob
     \/ paper[r].status \in {"OPEN", "APPROVED"}               \* createApplication
  /\ application[<<c, r>>] = "NONE"
  /\ application' = [application EXCEPT ![<<c, r>>] = "OPEN"]
  /\ UNCHANGED <<paper, applicant, posting, candidate, request, direct, recruiter>>

\* To any stage; to HIRED, the candidate is hired in a statement of its own.
\* scheduleInterview moves too.
MoveApplication(h, a, hired) ==
  /\ RecruiterTurn /\ recruiter[h] = AtRest /\ application[a] # "NONE"
  /\ application' = [application EXCEPT ![a] = IF hired THEN "HIRED" ELSE "OPEN"]
  /\ GoesOn(h, IF hired THEN [op |-> "hire", application |-> a, todo |-> {"candidate"}] ELSE AtRest)
  /\ UNCHANGED <<paper, applicant, posting, candidate, request, direct>>

UpdateCandidate(c, status) ==
  /\ RecruiterTurn /\ status \in {"ACTIVE", "HIRED"}
  /\ candidate' = [candidate EXCEPT ![c] = status]
  /\ UNCHANGED <<paper, applicant, posting, application, request, direct, recruiter>>

----------------------------------------------------------------------------
\* The approval endpoints, on requests of recruitment.
EngineMoves(q) ==
  /\ request[q] = "PENDING"
  /\ \E outcome \in {"APPROVED", "REJECTED", "ENDED"} : request' = [request EXCEPT ![q] = outcome]
  /\ UNCHANGED <<paper, applicant, posting, application, candidate, direct, recruiter>>

RequisitionStep(h, r) ==
  \/ SubmitRequisition(h, r) \/ ApproveRequisition(h, r) \/ RejectRequisition(h, r)
  \/ OpenRequisition(h, r) \/ CloseRequisition(h, r)

OfferStep(h, o) ==
  \/ SubmitOffer(h, o) \/ ApproveOffer(h, o) \/ RejectOffer(h, o) \/ ExtendOffer(h, o)
  \/ AcceptOffer(h, o) \/ DeclineOffer(h, o) \/ WithdrawOffer(h, o)

RecruitmentNext ==
  \/ \E r \in Requisition, status \in RequisitionStatus :
       CreateRequisition(r, status) \/ UpdatePaper(r, status)
  \/ \E o \in Offer, status \in OfferStatus :
       UpdatePaper(o, status) \/ \E a \in Candidate \X Requisition : CreateOffer(o, a, status)
  \/ \E h \in Recruiter :
       \/ \E r \in Requisition : RequisitionStep(h, r)
       \/ \E o \in Offer : OfferStep(h, o)
       \/ MarkSubmitted(h) \/ LinkRequest(h) \/ WriteStatus(h) \/ RecruiterStops(h)
       \/ \E q \in RequestId, answer \in {"PENDING", "APPROVED"} : EngineTakes(h, q, answer)
       \/ \E answer \in {"PENDING", "APPROVED", "REJECTED"} : EngineDecidesPaper(h, answer)
       \/ \E what \in {"application", "candidate"} : Hires(h, what)
       \/ \E a \in Candidate \X Requisition, hired \in BOOLEAN : MoveApplication(h, a, hired)
  \/ \E r \in Requisition, status \in PostingStatus : PublishRequisition(r, status) \/ UpdateJobPosting(r, status)
  \/ \E c \in Candidate : \/ \E r \in Requisition : Apply(c, r)
                          \/ \E status \in {"ACTIVE", "HIRED"} : UpdateCandidate(c, status)
  \/ \E q \in RequestId : EngineMoves(q)

RecruitmentSpec == RecruitmentInit /\ [][RecruitmentNext]_recruitmentVars

----------------------------------------------------------------------------
\* Properties, of handlers that take turns.

\* A paper whose status nobody set past the engine stands on what the engine
\* decided, wherever a handler broke off and whatever was decided at the
\* engine's own endpoints: it is approved, opened, extended or answered only
\* with the approval of the request it is linked to, rejected only with its
\* rejection, an accepted offer stays accepted, and only approved work has
\* applicants.
StandsOnApproval ==
  RecruitersTakeTurns => \A x \in Paper \ direct :
    LET answer == IF paper[x].request = NoRequest THEN "NONE" ELSE request[paper[x].request] IN
    /\ paper[x].status \in {"APPROVED", "OPEN", "EXTENDED", "ACCEPTED", "DECLINED"} => answer = "APPROVED"
    /\ paper[x].status = "REJECTED" => answer = "REJECTED"
    /\ paper[x].accepted => paper[x].status = "ACCEPTED"
    /\ x \in Requisition => \A c \in Candidate : application[<<c, x>>] # "NONE" => answer = "APPROVED"
=============================================================================
